---------------------------- MODULE Spec2Model ----------------------------
(***************************************************************************)
(* Receipt extraction agent (WeSplit AiAgent).                             *)
(*                                                                         *)
(*   - ResponseParser.extract_json_from_response: the fenced-block search  *)
(*     and the bracket scanner, run character by character over a text.    *)
(*   - OpenRouterClient.get_generation_stats / analyze_receipt: the stats  *)
(*     lookups with exponential backoff and the merge into the metrics.    *)
(*   - ExtractionOrchestrator.extract: the one-shot and two-step pipelines *)
(*     together with the ErrorHandler that builds the failure results.     *)
(*                                                                         *)
(* Texts are sequences of one-character strings.  Python positions are     *)
(* 0-based and are kept 0-based here (start_pos = -1 is "not found").      *)
(***************************************************************************)
EXTENDS Integers, Sequences, FiniteSets, TLC

VARIABLES
    \* ---- ResponseParser.extract_json_from_response (one call) ----
    response_text,    \* the argument of the call
    embedded,         \* how response_text was put together: pre \o doc \o post
    ppc,              \* position in the call: "idle", "fence", "scan", "after", "done"
    scan,             \* locals of the bracket scan (i, start_pos, end_pos, depth, ...)
    parsed,           \* outcome of the call: returned value or raised error
    \* ---- OpenRouterClient (one analyze_receipt call in flight) ----
    max_retries,      \* settings.api.max_retries
    client,           \* position and locals of analyze_receipt / get_generation_stats
    lookup_log,       \* outcomes of the stats lookups of the current call, in order
    \* ---- ExtractionOrchestrator.extract (one call) ----
    two_step,         \* the two_step argument
    pc,               \* the await the call is suspended at, or "done"
    response,              \* locals holding what analyze_receipt returned
    validation_response,
    extraction_response,
    result,           \* the dict returned by extract
    api_calls,        \* stages whose analyze_receipt call was issued, in order
    parser_calls,     \* stages at which extract_json_from_response was invoked
    validator_calls,  \* stages at which json.loads / parse_receipt_json was invoked
    error_site,       \* the place in extract that built the failure result
    \* ---- a second run of extract on the same image and model responses ----
    run,              \* 1, or 2 for the second run
    image_out,        \* what image preparation did in the first run
    model_out,        \* what the model API did at each stage of the first run
    first_result,     \* the result of the first run
    \* ---- parse_receipt_json (one call) ----
    json_data,        \* the value json.loads gave for the argument
    vpc,              \* position in the call: "idle", "called", "returned"
    validated,        \* outcome of the call: the model returned or the error raised
    \* ---- two extract calls on one orchestrator and one event loop ----
    other,            \* the locals of the call that is not running
    cur,              \* the call that is running: 1 or 2
    \* ---- analyze_bill, the /analyze-bill handler (one request) ----
    request,          \* what the request carries: image, imageData or imageUri
    files,            \* the paths that exist on the server's disk
    handler           \* position and locals of analyze_bill

parser_vars == <<response_text, embedded, ppc, scan, parsed>>

client_vars == <<max_retries, client, lookup_log>>

extract_vars == <<two_step, pc, response, validation_response, extraction_response,
                  result, api_calls, parser_calls, validator_calls, error_site>>

replay_vars == <<run, image_out, model_out, first_result>>

validator_vars == <<json_data, vpc, validated>>

task_vars == <<other, cur>>

server_vars == <<request, files, handler>>

vars == <<response_text, embedded, ppc, scan, parsed,
          max_retries, client, lookup_log,
          two_step, pc, response, validation_response, extraction_response,
          result, api_calls, parser_calls, validator_calls, error_site,
          run, image_out, model_out, first_result,
          json_data, vpc, validated,
          other, cur,
          request, files, handler>>

\* no request has reached analyze_bill
NoRequest == [kind |-> "none", image_file |-> FALSE, image_data |-> <<>>,
              image_uri |-> <<>>]

HandlerIdle == [pc |-> "idle", ai_agent |-> FALSE, image_path |-> <<>>,
                created |-> {}, result |-> "none", status |-> 0]

ServerIdle ==
    /\ request = NoRequest
    /\ files = {}
    /\ handler = HandlerIdle

-----------------------------------------------------------------------------
(* Bounds of the model.                                                     *)

\* longest text of the exhaustive family (every text over Sigma up to it)
MaxLen == 4
\* longest free prefix put in front of an embedded JSON document
MaxPrefix == 1
\* largest max_retries the stats fetcher is run with on its own
MaxRetries == 4
\* amounts, in hundredths
MaxAmount == 1300
\* the stats lookups each of two concurrent calls may make per API call
ConcurrentRetries == 2

-----------------------------------------------------------------------------
(* Python values.  Every value is a tagged record, so that None, a missing  *)
(* dict key and values of different types can be compared.  A dict is a     *)
(* record with one field per key it may hold; Absent marks a missing key.   *)

None == [t |-> "None"]
Absent == [t |-> "absent"]
Bool(b) == [t |-> "bool", v |-> b]
Num(n) == [t |-> "num", v |-> n]
Str(s) == [t |-> "str", v |-> s]
List(q) == [t |-> "list", v |-> q]

\* d.get(key) on a field read from a dict record
Get(field) == IF field = Absent THEN None ELSE field
\* d.get(key, default)
GetOr(field, default) == IF field = Absent THEN default ELSE field

\* bool(x), for the values tested for truth in the code
Truthy(x) ==
    CASE x.t = "None" -> FALSE
      [] x.t = "absent" -> FALSE
      [] x.t = "bool" -> x.v
      [] x.t = "num" -> x.v # 0
      [] x.t = "str" -> x.v # ""
      [] x.t = "list" -> x.v # <<>>
      [] x.t = "stats" -> \E k \in {"latency", "generation_time", "usage"} : x[k] # Absent
      [] OTHER -> TRUE

\* an exception instance; str(e) is its message, a sequence of words
Exception(type, msg) == [type |-> type, msg |-> msg]

-----------------------------------------------------------------------------
(* Python sequence helpers (0-based positions).                             *)

\* s[a:b]
Slice(s, a, b) == SubSeq(s, a + 1, b)

\* s[p:p+len(pat)] == pat
IsAt(s, pat, p) ==
    /\ p >= 0
    /\ p + Len(pat) <= Len(s)
    /\ SubSeq(s, p + 1, p + Len(pat)) = pat

\* s.find(pat) : first position of pat in s, -1 when absent
Find(s, pat) ==
    LET hits == {p \in 0..Len(s) : IsAt(s, pat, p)}
    IN  IF hits = {} THEN -1
        ELSE CHOOSE p \in hits : \A q \in hits : p <= q

Contains(s, pat) == Find(s, pat) # -1

SeqsUpTo(S, n) == UNION {[1..k -> S] : k \in 0..n}

-----------------------------------------------------------------------------
(* json.loads, as far as accept / reject and the kind of the top value go.  *)
(* Positions inside these operators are 1-based sequence indices; 0 means   *)
(* "no parse".                                                              *)

Whitespace == {" "}
Digits == {"0", "1", "2", "3", "4", "5", "6", "7", "8", "9"}
\* characters allowed after a backslash inside a JSON string (\uXXXX aside)
EscapeChars == {"\"", "\\", "/", "b", "f", "n", "r", "t"}

RECURSIVE SkipWs(_, _)
SkipWs(s, i) ==
    IF i <= Len(s) /\ s[i] \in Whitespace THEN SkipWs(s, i + 1) ELSE i

\* i is the position after the opening quote; the result is the position
\* after the closing quote
RECURSIVE ParseString(_, _)
ParseString(s, i) ==
    IF i > Len(s) THEN 0
    ELSE IF s[i] = "\"" THEN i + 1
    ELSE IF s[i] = "\\"
         THEN IF i + 1 <= Len(s) /\ s[i + 1] \in EscapeChars
              THEN ParseString(s, i + 2)
              ELSE 0
    ELSE ParseString(s, i + 1)

RECURSIVE ParseDigits(_, _)
ParseDigits(s, i) ==
    IF i <= Len(s) /\ s[i] \in Digits THEN ParseDigits(s, i + 1) ELSE i

\* -?(0|[1-9][0-9]*) ; fraction and exponent characters are not in any text
ParseNumber(s, i) ==
    LET j == IF s[i] = "-" THEN i + 1 ELSE i
    IN  IF j > Len(s) \/ s[j] \notin Digits THEN 0
        ELSE IF s[j] = "0" THEN j + 1
        ELSE ParseDigits(s, j + 1)

RECURSIVE ParseValue(_, _), ParseElements(_, _), ParseMembers(_, _)
ParseValue(s, i) ==
    IF i > Len(s) THEN 0
    ELSE CASE s[i] = "\"" -> ParseString(s, i + 1)
           [] s[i] \in Digits \cup {"-"} -> ParseNumber(s, i)
           [] s[i] = "[" ->
                LET j == SkipWs(s, i + 1)
                IN  IF j <= Len(s) /\ s[j] = "]" THEN j + 1
                    ELSE ParseElements(s, j)
           [] s[i] = "{" ->
                LET j == SkipWs(s, i + 1)
                IN  IF j <= Len(s) /\ s[j] = "}" THEN j + 1
                    ELSE ParseMembers(s, j)
           [] OTHER -> 0

ParseElements(s, i) ==
    LET e == ParseValue(s, i)
    IN  IF e = 0 THEN 0
        ELSE LET j == SkipWs(s, e)
             IN  IF j > Len(s) THEN 0
                 ELSE IF s[j] = "," THEN ParseElements(s, SkipWs(s, j + 1))
                 ELSE IF s[j] = "]" THEN j + 1
                 ELSE 0

ParseMembers(s, i) ==
    IF i > Len(s) \/ s[i] # "\"" THEN 0
    ELSE LET k == ParseString(s, i + 1)
         IN  IF k = 0 THEN 0
             ELSE LET c == SkipWs(s, k)
                  IN  IF c > Len(s) \/ s[c] # ":" THEN 0
                      ELSE LET e == ParseValue(s, SkipWs(s, c + 1))
                           IN  IF e = 0 THEN 0
                               ELSE LET j == SkipWs(s, e)
                                    IN  IF j > Len(s) THEN 0
                                        ELSE IF s[j] = ","
                                             THEN ParseMembers(s, SkipWs(s, j + 1))
                                        ELSE IF s[j] = "}" THEN j + 1
                                        ELSE 0

\* "object", "array", "scalar" when json.loads(s) succeeds, "invalid" when it
\* raises JSONDecodeError
json_loads_kind(s) ==
    LET i == SkipWs(s, 1)
        e == ParseValue(s, i)
    IN  IF e = 0 \/ SkipWs(s, e) # Len(s) + 1 THEN "invalid"
        ELSE IF s[i] = "{" THEN "object"
        ELSE IF s[i] = "[" THEN "array"
        ELSE "scalar"

json_loads_ok(s) == json_loads_kind(s) # "invalid"

-----------------------------------------------------------------------------
(* ResponseParser.extract_json_from_response, step 1: the fenced block.     *)
(* re.search(r'[3 backticks]json\s*(.*?)\s*[3 backticks]', response_text,  *)
(* re.DOTALL)                                                               *)

\* the backtick character, written by name
Backtick == "BACKTICK"
FenceClose == <<Backtick, Backtick, Backtick>>
FenceOpen == FenceClose \o <<"j", "s", "o", "n">>

\* 0-based position reached from p by a greedy \s*
SkipWsFrom(s, p) == SkipWs(s, p + 1) - 1

\* The match, when there is one, starts at the leftmost opening fence that
\* has a closing fence after it.  A closing fence begins with a non-blank
\* character, so the greedy \s* after "json" keeps all the blanks it finds;
\* group(1) is the shortest stretch after them that is followed by \s* and
\* a closing fence.
re_search(s) ==
    LET o == Find(s, FenceOpen)
        g == SkipWsFrom(s, o + Len(FenceOpen))
        ends == {e \in g..Len(s) : IsAt(s, FenceClose, SkipWsFrom(s, e))}
    IN  IF o = -1 \/ ends = {}
        THEN [found |-> FALSE, group |-> <<>>]
        ELSE [found |-> TRUE,
              group |-> Slice(s, g, CHOOSE e \in ends : \A f \in ends : e <= f)]

-----------------------------------------------------------------------------
(* Step 2: the bracket scanner.  open_char / close_char = "" stands for     *)
(* None.                                                                    *)

ScanInit ==
    [i |-> 0, start_pos |-> -1, end_pos |-> -1, depth |-> 0,
     in_string |-> FALSE, escape_next |-> FALSE,
     open_char |-> "", close_char |-> "", stopped |-> FALSE]

\* ScanChar without the in_string test: brackets inside strings are counted
ScanChar_StringsNotInert(st, char) ==
    IF st.escape_next
    THEN [st EXCEPT !.escape_next = FALSE]
    ELSE IF char = "\\"
    THEN [st EXCEPT !.escape_next = TRUE]
    ELSE IF st.start_pos = -1
    THEN IF char \in {"{", "["}
         THEN [st EXCEPT !.start_pos = st.i, !.open_char = char,
                         !.close_char = IF char = "{" THEN "}" ELSE "]",
                         !.depth = 1]
         ELSE st
    ELSE IF char = st.open_char
    THEN [st EXCEPT !.depth = st.depth + 1]
    ELSE IF char = st.close_char
    THEN IF st.depth - 1 = 0
         THEN [st EXCEPT !.depth = 0, !.end_pos = st.i + 1, !.stopped = TRUE]
         ELSE [st EXCEPT !.depth = st.depth - 1]
    ELSE st

\* ScanChar looking for the opening bracket inside strings too
ScanChar_OpensInString(st, char) ==
    IF st.escape_next
    THEN [st EXCEPT !.escape_next = FALSE]
    ELSE IF char = "\\"
    THEN [st EXCEPT !.escape_next = TRUE]
    ELSE LET s1 == IF char = "\"" /\ ~st.escape_next
                   THEN [st EXCEPT !.in_string = ~st.in_string]
                   ELSE st
         IN  IF s1.start_pos = -1
             THEN IF char = "{"
                  THEN [s1 EXCEPT !.start_pos = st.i, !.open_char = "{",
                                  !.close_char = "}", !.depth = 1]
                  ELSE IF char = "["
                  THEN [s1 EXCEPT !.start_pos = st.i, !.open_char = "[",
                                  !.close_char = "]", !.depth = 1]
                  ELSE s1
             ELSE IF s1.in_string THEN s1
             ELSE IF char = s1.open_char
             THEN [s1 EXCEPT !.depth = s1.depth + 1]
             ELSE IF char = s1.close_char
             THEN IF s1.depth - 1 = 0
                  THEN [s1 EXCEPT !.depth = 0, !.end_pos = st.i + 1,
                                  !.stopped = TRUE]
                  ELSE [s1 EXCEPT !.depth = s1.depth - 1]
             ELSE s1

\* ScanChar testing for the backslash first: an escaped backslash escapes too
ScanChar_BackslashFirst(st, char) ==
    IF char = "\\"
    THEN [st EXCEPT !.escape_next = TRUE]
    ELSE IF st.escape_next
    THEN [st EXCEPT !.escape_next = FALSE]
    ELSE LET s1 == IF char = "\"" /\ ~st.escape_next
                   THEN [st EXCEPT !.in_string = ~st.in_string]
                   ELSE st
         IN  IF s1.in_string THEN s1
             ELSE IF s1.start_pos = -1
             THEN IF char = "{"
                  THEN [s1 EXCEPT !.start_pos = st.i, !.open_char = "{",
                                  !.close_char = "}", !.depth = 1]
                  ELSE IF char = "["
                  THEN [s1 EXCEPT !.start_pos = st.i, !.open_char = "[",
                                  !.close_char = "]", !.depth = 1]
                  ELSE s1
             ELSE IF char = s1.open_char
             THEN [s1 EXCEPT !.depth = s1.depth + 1]
             ELSE IF char = s1.close_char
             THEN IF s1.depth - 1 = 0
                  THEN [s1 EXCEPT !.depth = 0, !.end_pos = st.i + 1,
                                  !.stopped = TRUE]
                  ELSE [s1 EXCEPT !.depth = s1.depth - 1]
             ELSE s1

\* ScanChar opening a new span at an opening bracket of the other kind
ScanChar_ReopensSpan(st, char) ==
    IF st.escape_next
    THEN [st EXCEPT !.escape_next = FALSE]
    ELSE IF char = "\\"
    THEN [st EXCEPT !.escape_next = TRUE]
    ELSE LET s1 == IF char = "\"" /\ ~st.escape_next
                   THEN [st EXCEPT !.in_string = ~st.in_string]
                   ELSE st
         IN  IF s1.in_string THEN s1
             ELSE IF s1.start_pos = -1 \/ (char \in {"{", "["} /\ char # s1.open_char)
             THEN IF char = "{"
                  THEN [s1 EXCEPT !.start_pos = st.i, !.open_char = "{",
                                  !.close_char = "}", !.depth = 1]
                  ELSE IF char = "["
                  THEN [s1 EXCEPT !.start_pos = st.i, !.open_char = "[",
                                  !.close_char = "]", !.depth = 1]
                  ELSE s1
             ELSE IF char = s1.open_char
             THEN [s1 EXCEPT !.depth = s1.depth + 1]
             ELSE IF char = s1.close_char
             THEN IF s1.depth - 1 = 0
                  THEN [s1 EXCEPT !.depth = 0, !.end_pos = st.i + 1,
                                  !.stopped = TRUE]
                  ELSE [s1 EXCEPT !.depth = s1.depth - 1]
             ELSE s1

\* one iteration of 'for i, char in enumerate(response_text)' on the locals
\* st; stopped = TRUE is the break
ScanChar(st, char) ==
    IF st.escape_next
    THEN [st EXCEPT !.escape_next = FALSE]
    ELSE IF char = "\\"
    THEN [st EXCEPT !.escape_next = TRUE]
    ELSE LET s1 == IF char = "\"" /\ ~st.escape_next
                   THEN [st EXCEPT !.in_string = ~st.in_string]
                   ELSE st
         IN  IF s1.in_string THEN s1
             ELSE IF s1.start_pos = -1
             THEN IF char = "{"
                  THEN [s1 EXCEPT !.start_pos = st.i, !.open_char = "{",
                                  !.close_char = "}", !.depth = 1]
                  ELSE IF char = "["
                  THEN [s1 EXCEPT !.start_pos = st.i, !.open_char = "[",
                                  !.close_char = "]", !.depth = 1]
                  ELSE s1
             ELSE IF char = s1.open_char
             THEN [s1 EXCEPT !.depth = s1.depth + 1]
             ELSE IF char = s1.close_char
             THEN IF s1.depth - 1 = 0
                  THEN [s1 EXCEPT !.depth = 0, !.end_pos = st.i + 1,
                                  !.stopped = TRUE]
                  ELSE [s1 EXCEPT !.depth = s1.depth - 1]
             ELSE s1

Returned(v) == [kind |-> "return", value |-> v]
\* ValueError("Impossible d'extraire un objet ou un tableau JSON complet et valide.")
NoJsonFound == [kind |-> "raise", value |-> <<>>]
NotCalled == [kind |-> "none", value |-> <<>>]

\* the fenced block is never looked for
FenceTry_Skipped ==
    /\ ppc = "fence"
    /\ parsed' = parsed
    /\ ppc' = "scan"
    /\ UNCHANGED <<response_text, embedded, scan>>
    /\ UNCHANGED <<client_vars, extract_vars, replay_vars, validator_vars, task_vars, server_vars>>

\* lines 18-26: the fenced block is tried first
FenceTry ==
    /\ ppc = "fence"
    /\ LET match == re_search(response_text)
       IN  IF match.found /\ json_loads_ok(match.group)
           THEN /\ parsed' = Returned(match.group)
                /\ ppc' = "done"
           ELSE /\ parsed' = parsed
                /\ ppc' = "scan"
    /\ UNCHANGED <<response_text, embedded, scan>>
    /\ UNCHANGED <<client_vars, extract_vars, replay_vars, validator_vars, task_vars, server_vars>>

\* lines 38-75: one character of the scan
ScanStep ==
    /\ ppc = "scan"
    /\ scan.i < Len(response_text)
    /\ LET st == ScanChar(scan, response_text[scan.i + 1])
       IN  IF st.stopped
           THEN /\ scan' = st
                /\ ppc' = "after"
           ELSE /\ scan' = [st EXCEPT !.i = scan.i + 1]
                /\ ppc' = IF scan.i + 1 = Len(response_text) THEN "after" ELSE "scan"
    /\ UNCHANGED <<response_text, embedded, parsed>>
    /\ UNCHANGED <<client_vars, extract_vars, replay_vars, validator_vars, task_vars, server_vars>>

\* the loop body never runs on an empty text
ScanEmpty ==
    /\ ppc = "scan"
    /\ Len(response_text) = 0
    /\ ppc' = "after"
    /\ UNCHANGED <<response_text, embedded, scan, parsed>>
    /\ UNCHANGED <<client_vars, extract_vars, replay_vars, validator_vars, task_vars, server_vars>>

\* lines 77-85: the candidate span is decoded, or the call raises
ScanFinish ==
    /\ ppc = "after"
    /\ LET potential_json == Slice(response_text, scan.start_pos, scan.end_pos)
       IN  IF scan.start_pos # -1 /\ scan.end_pos # -1 /\ json_loads_ok(potential_json)
           THEN parsed' = Returned(potential_json)
           ELSE parsed' = NoJsonFound
    /\ ppc' = "done"
    /\ UNCHANGED <<response_text, embedded, scan>>
    /\ UNCHANGED <<client_vars, extract_vars, replay_vars, validator_vars, task_vars, server_vars>>

-----------------------------------------------------------------------------
(* The texts the parser is run on.                                          *)

Sigma == {"{", "}", "[", "]", "\"", "\\", "1", ","}

\* JSON scalars, among them strings that hold an unbalanced bracket, an
\* escaped quote and an escaped backslash just before the closing quote
Scalars ==
    { <<"1">>,
      <<"\"", "\"">>,
      <<"\"", "{", "\"">>,
      <<"\"", "]", "\"">>,
      <<"\"", "\\", "\"", "}", "\\", "\\", "\"">> }

Wrap(open, body, close) == <<open>> \o body \o <<close>>
Member(v) == <<"\"", "k", "\"", ":">> \o v

FlatDocs ==
    {<<"[", "]">>, <<"{", "}">>}
    \cup {Wrap("[", v, "]") : v \in Scalars}
    \cup {Wrap("{", Member(v), "}") : v \in Scalars}

NestedDocs ==
    {Wrap("[", <<"1", ",", " ">> \o d, "]") : d \in FlatDocs}
    \cup {Wrap("{", Member(d), "}") :
            d \in {<<"[", "]">>, <<"{", "}">>, <<"[", "\"", "]", "\"", "]">>}}

\* well-formed JSON objects and arrays
Docs == FlatDocs \cup NestedDocs

Blanks == {<<>>, <<" ">>}

\* what may stand in front of an embedded document
Prefixes ==
    SeqsUpTo(Sigma \cup {"a"}, MaxPrefix)
    \cup {p \o FenceOpen \o w : p \in {<<>>, <<"{">>}, w \in Blanks}

\* what may follow it
Suffixes ==
    {<<>>, <<"a">>, <<"}">>, <<"\"">>, <<" ", "{", "}">>}
    \cup {w \o FenceClose : w \in Blanks}
    \cup {<<" ">> \o FenceOpen \o v \o FenceClose : v \in {<<"1">>, <<"[", "]">>}}

\* fenced blocks whose content is not a JSON object or array
FencedOther ==
    {p \o FenceOpen \o w \o x \o w \o FenceClose \o s :
        p \in {<<>>, <<"[", "]">>}, w \in Blanks,
        x \in SeqsUpTo({"1", "\"", "{"}, 2), s \in {<<>>, <<"{", "}">>}}
    \cup {FenceOpen \o x : x \in {<<>>, <<"{", "}">>}}

Texts(pre, doc, post) == [pre |-> pre, doc |-> doc, post |-> post]

\* texts that embed no document
PlainTexts ==
    {Texts(t, <<>>, <<>>) : t \in SeqsUpTo(Sigma, MaxLen) \cup FencedOther}

\* a document between a prefix and a suffix
EmbeddedTexts ==
    {Texts(p, d, s) : p \in Prefixes, d \in Docs, s \in Suffixes}

\* nothing but the parser is running
OthersIdle ==
    /\ max_retries = 0
    /\ client = [pc |-> "idle"]
    /\ lookup_log = <<>>
    /\ two_step = FALSE
    /\ pc = "idle"
    /\ response = 0
    /\ validation_response = 0
    /\ extraction_response = 0
    /\ result = 0
    /\ api_calls = <<>>
    /\ parser_calls = <<>>
    /\ validator_calls = <<>>
    /\ error_site = "none"
    /\ run = 1
    /\ image_out = 0
    /\ model_out = 0
    /\ first_result = 0
    /\ json_data = 0
    /\ vpc = "idle"
    /\ validated = 0
    /\ other = 0
    /\ cur = 1
    /\ ServerIdle

InitParser ==
    /\ \/ embedded \in PlainTexts
       \/ embedded \in EmbeddedTexts
    /\ response_text = embedded.pre \o embedded.doc \o embedded.post
    /\ ppc = "fence"
    /\ scan = ScanInit
    /\ parsed = NotCalled
    /\ OthersIdle

NextParser == FenceTry \/ ScanStep \/ ScanEmpty \/ ScanFinish

SpecParser == InitParser /\ [][NextParser]_vars

-----------------------------------------------------------------------------
(* Python floats.  A JSON number is written with two decimals and counted   *)
(* in hundredths; the float it becomes is the IEEE 754 double nearest to    *)
(* it.  A double is kept as the pair [h, e]: the hundredths h it is next    *)
(* to and its distance e from h/100, counted in units of 2^-59 hundredths   *)
(* (the spacing of the doubles around 0.01), so that its value is           *)
(* (h + e / 2^59) / 100.  Amounts stay below 2^6.                           *)

RECURSIVE Pow2(_)
Pow2(n) == IF n = 0 THEN 1 ELSE 2 * Pow2(n - 1)

RECURSIVE Log2(_)
\* the position of the leading bit of n >= 1
Log2(n) == IF n < 2 THEN 0 ELSE 1 + Log2(n \div 2)

RECURSIVE FirstOne(_, _)
\* binary long division of r/100, up to and including its first 1 bit:
\* the number of bits produced and the remainder left
FirstOne(r, p) ==
    IF 2 * r >= 100 THEN [bits |-> p + 1, r |-> 2 * r - 100]
    ELSE FirstOne(2 * r, p + 1)

RECURSIVE MoreBits(_, _, _)
\* n more bits of the long division: the remainder and the last bit
MoreBits(r, n, last) ==
    IF n = 0 THEN [r |-> r, last |-> last]
    ELSE MoreBits((2 * r) % 100, n - 1, (2 * r) \div 100)

\* the mantissa cut off after q bits, given what MoreBits left
Cut(q, m) == [q |-> q, r |-> m.r, last |-> m.last]

\* the 53-bit mantissa of h/100 cut off, for h >= 1: the number q of bits
\* after the binary point, the remainder (in hundredths of the last bit)
\* and the last bit kept
MantissaFrom(whole, r, q) == Cut(q, MoreBits(r, q, whole % 2))
MantissaBelowOne(f) == Cut(f.bits + 52, MoreBits(f.r, 52, 1))
Mantissa(h) ==
    IF h \div 100 >= 1
    THEN MantissaFrom(h \div 100, h % 100, 52 - Log2(h \div 100))
    ELSE MantissaBelowOne(FirstOne(h % 100, 0))

\* round to nearest, ties to even: is the cut-off mantissa m rounded up
RoundsUp(m) == 2 * m.r > 100 \/ (2 * m.r = 100 /\ m.last = 1)

Rounded(h, m, up, unit) ==
    [h |-> h,
     e |-> IF up THEN (100 - m.r) * unit ELSE -(m.r * unit),
     spacing |-> 100 * unit,
     odd |-> (m.last = 1) # up]

NearestTo(h, m) == Rounded(h, m, RoundsUp(m), Pow2(59 - m.q))

\* the double nearest to h/100 (round to nearest, ties to even), for h >= 0,
\* with the spacing of the doubles around it and the parity of its mantissa
Nearest(h) ==
    IF h = 0 THEN [h |-> 0, e |-> 0, spacing |-> 0, odd |-> FALSE]
    ELSE NearestTo(h, Mantissa(h))

\* the doubles nearest to the amounts 0.00 .. MaxAmount / 100
Doubles == [h \in 0..MaxAmount |-> Nearest(h)]

Double(h, e) == [t |-> "double", h |-> h, e |-> e]

\* abs(v)
Abs(n) == IF n < 0 THEN -n ELSE n

Signed(v, e) == Double(v, IF v >= 0 THEN e ELSE -e)

\* float(x) of the JSON number x: Num(h) stands for h/100
float(x) ==
    IF x.t = "double" THEN x ELSE Signed(x.v, Doubles[Abs(x.v)].e)

\* the number of grid steps nearest to d, ties to the even mantissa
Steps(rest, k, spacing, odd_k) ==
    IF 2 * rest > spacing THEN k + 1
    ELSE IF 2 * rest < spacing THEN k
    ELSE IF odd_k THEN k + 1 ELSE k

RoundSum(h, grid, d, k) ==
    Double(h, grid.e + Steps(d - k * grid.spacing, k, grid.spacing,
                             (k % 2 = 1) # grid.odd) * grid.spacing)

\* the exact sum of a and b lies d away from the double grid around h
SumOn(a, b, grid) ==
    RoundSum(a.h + b.h, grid, a.e + b.e - grid.e,
             (a.e + b.e - grid.e) \div grid.spacing)

\* a + b for doubles a, b >= 0, rounded to nearest, ties to even
fl_add(a, b) ==
    IF a.h = 0 /\ a.e = 0 THEN b
    ELSE IF b.h = 0 /\ b.e = 0 THEN a
    ELSE SumOn(a, b, Doubles[a.h + b.h])

\* a - b; the difference of two doubles that are next to hundredths is
\* itself a double whenever it is compared with the tolerance
fl_sub(a, b) == Double(a.h - b.h, a.e - b.e)

\* abs(a)
fl_abs(a) ==
    IF a.h < 0 \/ (a.h = 0 /\ a.e < 0) THEN Double(-a.h, -a.e) ELSE a

\* a <= b
fl_le(a, b) == a.h < b.h \/ (a.h = b.h /\ a.e <= b.e)

-----------------------------------------------------------------------------
(* json_formatter.py: the pydantic models and parse_receipt_json.  A JSON   *)
(* amount Num(h) is written in hundredths and stands for the float nearest  *)
(* to h/100.                                                                *)

valid_categories ==
    <<"Food & Drinks", "Events & Entertainment", "Travel & Transport",
      "Housing & Utilities", "Shopping & Essentials", "On-Chain Life">>

\* v in a_list
InList(v, a_list) == \E k \in DOMAIN a_list : a_list[k] = v

\* the default tolerance 0.01, in hundredths
Tolerance == 1

\* a decoded JSON object with the keys the models read
Object(is_receipt, reason, category, items, totals) ==
    [t |-> "dict", is_receipt |-> is_receipt, reason |-> reason,
     category |-> category, items |-> items, totals |-> totals]

Item(description, quantity, unit_price, total_price) ==
    [t |-> "item", description |-> description, quantity |-> quantity,
     unit_price |-> unit_price, total_price |-> total_price]

TotalsOf(total, total_calculated, total_matches) ==
    [t |-> "totals", total |-> total, total_calculated |-> total_calculated,
     total_matches |-> total_matches]

Ok(v) == [ok |-> TRUE, value |-> v]
Raise(e) == [ok |-> FALSE, value |-> e]

\* pydantic's lax conversion of an input to bool
BoolStrings == {"true", "false", "yes", "no", "on", "off", "1", "0", "t", "f", "y", "n"}
CoerceBool(x) ==
    CASE x.t = "bool" -> Ok(Bool(x.v))
      [] x.t = "num" /\ x.v \in {0, 1} -> Ok(Bool(x.v = 1))
      [] x.t = "str" /\ x.v \in BoolStrings ->
            Ok(Bool(x.v \in {"true", "yes", "on", "1", "t", "y"}))
      [] OTHER -> Raise(Exception("ValidationError", <<"is_receipt", "bool_type">>))

\* a validator that returns every amount as it came
must_be_positive_KeepsSign(v) == v

\* ReceiptItem.must_be_positive
must_be_positive(v) ==
    IF v # None /\ v.v < 0 THEN Num(Abs(v.v)) ELSE v

\* ReceiptItem(**item): a missing quantity takes the default 1.0, which the
\* validator does not visit
ReceiptItem(item) ==
    Item(item.description,
         IF item.quantity = Absent THEN Num(100) ELSE must_be_positive(item.quantity),
         must_be_positive(Get(item.unit_price)),
         must_be_positive(Get(item.total_price)))

RECURSIVE SumFrom(_, _)
\* sum(...), which adds the prices one by one from the left, starting at 0
SumFrom(acc, items) ==
    IF items = <<>> THEN acc
    ELSE SumFrom(IF Head(items).total_price # None
                 THEN fl_add(acc, float(Head(items).total_price))
                 ELSE acc,
                 Tail(items))

\* sum(item.total_price for item in items if item.total_price is not None)
SumPrices(items) == SumFrom(Double(0, 0), items)

\* calculate_from_items leaving a missing total unset
check_total_LeavesTotalUnset(totals, total_calculated) ==
    IF totals.total # None
    THEN TotalsOf(totals.total, total_calculated,
                  Bool(fl_le(fl_abs(fl_sub(float(totals.total), total_calculated)),
                             float(Num(Tolerance)))))
    ELSE TotalsOf(None, total_calculated, Bool(TRUE))

\* the body of calculate_from_items once total_calculated is set
check_total(totals, total_calculated) ==
    IF totals.total # None
    THEN TotalsOf(totals.total, total_calculated,
                  Bool(fl_le(fl_abs(fl_sub(float(totals.total), total_calculated)),
                             float(Num(Tolerance)))))
    ELSE TotalsOf(total_calculated, total_calculated, Bool(TRUE))

\* Totals.calculate_from_items
calculate_from_items(totals, items) == check_total(totals, SumPrices(items))

\* validate_totals recomputing for an empty item list too
validate_totals_WithoutItems(receipt) ==
    IF receipt.totals # None
    THEN [receipt EXCEPT !.totals = calculate_from_items(receipt.totals, receipt.items)]
    ELSE receipt

\* ReceiptData.validate_totals
validate_totals(receipt) ==
    IF receipt.totals # None /\ receipt.items # <<>>
    THEN [receipt EXCEPT !.totals = calculate_from_items(receipt.totals, receipt.items)]
    ELSE receipt

\* a validator that accepts every string as a category
validate_category_AcceptsAnyString(v) ==
    IF v = None THEN Ok(v)
    ELSE IF v.t # "str" THEN Raise(Exception("ValidationError", <<"category", "string_type">>))
    ELSE Ok(v)

\* ReceiptData.validate_category
validate_category(v) ==
    IF v = None THEN Ok(v)
    ELSE IF v.t # "str" THEN Raise(Exception("ValidationError", <<"category", "string_type">>))
    ELSE IF ~InList(v.v, valid_categories)
    THEN Raise(Exception("ValidationError",
                         <<"Invalid", "category:", v.v, "Valid", "categories:">>
                             \o valid_categories))
    ELSE Ok(v)

\* InvalidReceipt(**data)
InvalidReceipt(data) ==
    LET flag == IF data.is_receipt = Absent THEN Ok(Bool(FALSE))
                ELSE CoerceBool(data.is_receipt)
    IN  IF ~flag.ok THEN flag
        ELSE IF data.reason.t # "str"
        THEN Raise(Exception("ValidationError", <<"reason", "missing">>))
        ELSE Ok([model |-> "InvalidReceipt", is_receipt |-> flag.value,
                 reason |-> data.reason])

\* ReceiptData(**data) for data whose is_receipt is True
ReceiptData(data) ==
    LET category == validate_category(Get(data.category))
    IN  IF ~category.ok THEN category
        ELSE Ok([model |-> "ReceiptData",
                 is_receipt |-> Bool(TRUE),
                 category |-> category.value,
                 items |-> IF data.items = Absent THEN <<>>
                           ELSE [k \in DOMAIN data.items.v |-> ReceiptItem(data.items.v[k])],
                 totals |-> IF Get(data.totals) = None THEN None
                            ELSE TotalsOf(Get(data.totals.total),
                                          Get(data.totals.total_calculated),
                                          Get(data.totals.total_matches)),
                 reason |-> Get(data.reason)])

\* x is True
IsTrue(x) == x.t = "bool" /\ x.v
\* x is False
IsFalse(x) == x.t = "bool" /\ ~x.v

\* receipt.validate_totals(); return receipt
validated_receipt(receipt) ==
    IF ~receipt.ok THEN receipt ELSE Ok(validate_totals(receipt.value))

\* parse_receipt_json on the decoded value of json_str; a value that is not
\* a dict has no .get
parse_receipt_json(data) ==
    IF data.t # "dict"
    THEN Raise(Exception("AttributeError", <<"object", "has", "no", "attribute", "get">>))
    ELSE IF ~IsTrue(Get(data.is_receipt))
    THEN InvalidReceipt(data)
    ELSE validated_receipt(ReceiptData(data))

\* BaseModel.model_dump()
model_dump(record) == [record EXCEPT !.model = "dict"]

\* isinstance(receipt_data, ReceiptData)
IsReceiptData(record) == record.model = "ReceiptData"

\* no call of parse_receipt_json has returned
NotValidated == [ok |-> FALSE, value |-> Exception("", <<>>)]

\* one call of parse_receipt_json, from entry to return or raise
ParseReceipt ==
    /\ vpc = "called"
    /\ validated' = parse_receipt_json(json_data)
    /\ vpc' = "returned"
    /\ UNCHANGED json_data
    /\ UNCHANGED <<parser_vars, client_vars, extract_vars, replay_vars, task_vars, server_vars>>

\* the values found under "category"
Categories ==
    {Absent, None, Str("Misc"), Str("food & drinks"), Str(""), Num(7)}
        \cup {Str(valid_categories[k]) : k \in DOMAIN valid_categories}

\* the lists found under "items", amounts in hundredths
ItemLists ==
    { Absent,
      List(<<>>),
      List(<<Item(Str("menu"), Num(100), Num(500), Num(500)),
             Item(Str("wine"), Num(100), Num(350), Num(350))>>),
      List(<<Item(Str("menu"), Num(100), Num(500), Num(500)),
             Item(Str("beer"), Num(100), Num(300), Num(300))>>),
      List(<<Item(Str("bread"), Absent, Num(100), Num(100))>>),
      List(<<Item(Str("bag"), Num(100), Num(10), Num(10)),
             Item(Str("gum"), Num(100), Num(20), Num(20))>>),
      List(<<Item(Str("refund"), Num(-200), Num(-75), Num(-150))>>),
      List(<<Item(Str("water"), Num(100), None, Absent),
             Item(Str("bread"), Num(100), Num(-100), Num(100))>>),
      List(<<Item(Str("water"), Num(100), Absent, None)>>) }

\* the values found under "totals"
TotalsBlocks ==
    {Absent, None} \cup
    [t : {"dict"},
     total : {Absent, None, Num(0), Num(30), Num(99), Num(101), Num(850),
              Num(851), Num(900)},
     total_calculated : {Absent, Num(990), Num(-500)},
     total_matches : {Absent, Bool(TRUE), Bool(FALSE)}]

\* the decoded objects handed to parse_receipt_json
ValidatorInputs ==
    {Object(Bool(TRUE), Absent, c, i, t) :
        c \in Categories, i \in ItemLists, t \in TotalsBlocks}
    \cup
    {Object(f, r, c, Absent, Absent) :
        f \in {Absent, None, Bool(FALSE), Num(0), Num(1), Str("true")},
        r \in {Absent, None, Num(7), Str("blank page")},
        c \in {Absent, Str("Misc")}}

InitValidator ==
    /\ response_text = <<>>
    /\ embedded = 0
    /\ ppc = "idle"
    /\ scan = ScanInit
    /\ parsed = NotCalled
    /\ max_retries = 0
    /\ client = [pc |-> "idle"]
    /\ lookup_log = <<>>
    /\ two_step = FALSE
    /\ pc = "idle"
    /\ response = 0
    /\ validation_response = 0
    /\ extraction_response = 0
    /\ result = 0
    /\ api_calls = <<>>
    /\ parser_calls = <<>>
    /\ validator_calls = <<>>
    /\ error_site = "none"
    /\ run = 1
    /\ image_out = 0
    /\ model_out = 0
    /\ first_result = 0
    /\ json_data \in ValidatorInputs
    /\ vpc = "called"
    /\ validated = NotValidated
    /\ other = 0
    /\ cur = 1
    /\ ServerIdle

SpecValidator == InitValidator /\ [][ParseReceipt]_vars

\* json.loads(json.dumps(record.model_dump())): every field of the model is
\* a key of the object, a field that is None comes back as null, and a float
\* comes back as the same float (repr round-trips)
Serialized(record) ==
    IF IsReceiptData(record)
    THEN Object(record.is_receipt, record.reason, record.category,
                List(record.items),
                IF record.totals = None THEN None
                ELSE [t |-> "dict", total |-> record.totals.total,
                      total_calculated |-> record.totals.total_calculated,
                      total_matches |-> record.totals.total_matches])
    ELSE Object(record.is_receipt, record.reason, Absent, Absent, Absent)

\* the record returned is serialised and handed to parse_receipt_json again
SecondPass ==
    /\ vpc = "returned"
    /\ validated.ok
    /\ validated' = parse_receipt_json(Serialized(validated.value))
    /\ vpc' = "reparsed"
    /\ UNCHANGED json_data
    /\ UNCHANGED <<parser_vars, client_vars, extract_vars, replay_vars, task_vars, server_vars>>

NextReparse == ParseReceipt \/ SecondPass

SpecReparse == InitValidator /\ [][NextReparse]_vars


-----------------------------------------------------------------------------
(* error_handler.py.  A message is a sequence of words; the f-string puts   *)
(* the handler's prefix in front of str(error).                             *)

\* a failure that carries no message
Failure_WithoutMessage(prefix, error) ==
    [success |-> Bool(FALSE), error |-> Absent, data |-> None,
     is_receipt |-> Absent, usage |-> Absent, metrics |-> Absent,
     raw_response |-> Absent]

Failure(prefix, error) ==
    [success |-> Bool(FALSE), error |-> Str(prefix \o error.msg), data |-> None,
     is_receipt |-> Absent, usage |-> Absent, metrics |-> Absent,
     raw_response |-> Absent]

handle_image_processing_error(error) ==
    Failure(<<"Erreur", "de", "traitement", "image", ":">>, error)

\* the one-shot API failure reported as a parsing failure
handle_api_error_AsParsing(error) ==
    Failure(<<"Erreur", "de", "parsing", ":">>, error)

handle_api_error(error) ==
    Failure(<<"Erreur", "API", ":">>, error)

handle_parsing_error(error, raw_response) ==
    [Failure(<<"Erreur", "de", "parsing", ":">>, error)
        EXCEPT !.raw_response = IF Truthy(raw_response) THEN raw_response ELSE Absent]

handle_validation_error(error) ==
    Failure(<<"Erreur", "validation", ":">>, error)

\* the validation-stage API failure reported like the one-shot one
handle_api_validation_error_AsApi(error) ==
    Failure(<<"Erreur", "API", ":">>, error)

handle_api_validation_error(error) ==
    Failure(<<"Erreur", "API", "validation", ":">>, error)

handle_api_extraction_error(error) ==
    Failure(<<"Erreur", "API", "extraction", ":">>, error)

-----------------------------------------------------------------------------
(* What the model API answers.                                              *)

\* APIConfig.max_retries (default)
DefaultMaxRetries == 3
\* APIConfig.delay (default 0.5 s), in milliseconds
BaseDelayMs == 500

\* A message content: a text and, as ResponseParserInterface gives it, the
\* decoded JSON value that extract_json_from_response finds in the text
\* (NoSpan when it finds none).
NoSpan == [t |-> "nospan"]
Text(label, span) == [t |-> "str", v |-> label, span |-> span]

ReceiptDoc ==
    Object(Bool(TRUE), Absent, Str("Food & Drinks"),
           List(<<Item(Str("coffee"), Num(200), Num(250), Num(500)),
                  Item(Str("discount"), Absent, Absent, Num(-150))>>),
           [t |-> "dict", total |-> Num(650), total_calculated |-> Absent,
            total_matches |-> Absent])

Contents ==
    { Text("no json in it", NoSpan),
      Text("an array", List(<<>>)),
      Text("a receipt", ReceiptDoc),
      Text("is_receipt true", Object(Bool(TRUE), Absent, Absent, Absent, Absent)),
      Text("category Misc", Object(Bool(TRUE), Absent, Str("Misc"), Absent, Absent)),
      Text("not a receipt", Object(Bool(FALSE), Str("blank page"), Absent, Absent, Absent)),
      Text("not a receipt, no reason", Object(Bool(FALSE), Absent, Absent, Absent, Absent)),
      Text("is_receipt 1", Object(Num(1), Str("blank page"), Absent, Absent, Absent)),
      Text("is_receipt null", Object(None, Str("blank page"), Absent, Absent, Absent)),
      Text("no is_receipt", Object(Absent, Str("blank page"), Absent, Absent, Absent)) }

EmptyText == Text("", NoSpan)

Choice(content) == [content |-> content, finish_reason |-> "stop"]

\* the object returned by chat.completions.create
ApiResponses ==
    [id : {None, Str("gen-1")},
     choices : {<<>>} \cup {<<Choice(c)>> : c \in Contents \cup {None, EmptyText}},
     usage : {None, [prompt_tokens |-> 7, completion_tokens |-> 3, total_tokens |-> 10]},
     model : {"meta-llama/llama-4-scout"}]

\* the exceptions chat.completions.create raises
ApiErrors ==
    { [type |-> "APIStatusError", status_code |-> "500", msg |-> <<"server", "error">>],
      [type |-> "APIError", status_code |-> "", msg |-> <<"bad", "request">>],
      [type |-> "Exception", status_code |-> "", msg |-> <<"connection", "reset">>] }

\* the dict found under "data" in the body of the stats endpoint
Stats(latency, generation_time, usage) ==
    [t |-> "stats", latency |-> latency, generation_time |-> generation_time,
     usage |-> usage]

EmptyStats == Stats(Absent, Absent, Absent)

\* bodies of a 200 answer: response.json() raises on the first one
Undecodable == [t |-> "undecodable"]
Bodies ==
    { Undecodable,
      [t |-> "body", data |-> Absent],
      [t |-> "body", data |-> Stats(Num(120), Num(800), Num(2))],
      [t |-> "body", data |-> Stats(None, Num(0), Absent)],
      [t |-> "body", data |-> Stats(Str("n/a"), Absent, Absent)] }

\* what one http_client.get of the stats endpoint does
LookupOutcomes ==
    {[kind |-> "exception", status |-> 0, body |-> Undecodable]}
    \cup {[kind |-> "response", status |-> 200, body |-> b] : b \in Bodies}
    \cup {[kind |-> "response", status |-> st, body |-> Undecodable] : st \in {404, 500}}

-----------------------------------------------------------------------------
(* openrouter_client.py: analyze_receipt and get_generation_stats.          *)

InitialMetrics ==
    [t |-> "metrics", first_token_latency_ms |-> None, generation_time_ms |-> None,
     throughput |-> None, cost |-> None, finish_reason |-> None]

ClientIdle ==
    [pc |-> "idle", generation_id |-> None, content_to_return |-> None,
     usage_data |-> None, metrics |-> InitialMetrics, model |-> "",
     attempt |-> 0, total_delay |-> 0, sleeps |-> 0, stats |-> Absent,
     result |-> None, cancelled |-> FALSE]

\* the multiplier taken from the index of the attempt to come
BackoffDelay_NextAttempt(attempt) == BaseDelayMs * Pow2(attempt + 1)

\* delay = base_delay * (2 ** attempt)
BackoffDelay(attempt) == BaseDelayMs * Pow2(attempt)

\* random.uniform(0, delay * 0.1): the two ends of the range
Jitters(delay) == {0, delay \div 10}

\* int(x) and float(x) of a decoded JSON value: a number converts, a text
\* that is not a numeral raises ValueError
int(x) ==
    IF x.t = "num" THEN Ok(x)
    ELSE Raise(Exception("ValueError", <<"invalid", "literal", "for", "int()">>))

\* lines 187-203: the stats, when there are any, go into the metrics; the
\* conversions may raise
merge_stats(metrics, stats, usage_data) ==
    IF ~Truthy(stats) THEN Ok(metrics)
    ELSE LET latency == Get(stats.latency)
             gen_time == Get(stats.generation_time)
             cost == Get(stats.usage)
             m == [metrics EXCEPT
                     !.first_token_latency_ms = IF latency # None THEN latency ELSE @,
                     !.generation_time_ms = IF gen_time # None THEN gen_time ELSE @,
                     !.cost = IF cost # None THEN cost ELSE @]
         IN  IF latency # None /\ ~int(latency).ok THEN int(latency)
             ELSE IF gen_time # None /\ ~int(gen_time).ok THEN int(gen_time)
             ELSE IF cost # None /\ ~int(cost).ok THEN int(cost)
             ELSE IF /\ Truthy(m.generation_time_ms)
                     /\ Truthy(usage_data)
                     /\ usage_data.completion_tokens.v > 0
                     /\ m.generation_time_ms.v > 0
             THEN Ok([m EXCEPT !.throughput =
                         [t |-> "float", num |-> usage_data.completion_tokens.v * 1000,
                          den |-> m.generation_time_ms.v]])
             ELSE Ok(m)

\* lines 218-243: the dict analyze_receipt returns when its try block raised
FailureResponse(e) ==
    [t |-> "response", success |-> Bool(FALSE), content |-> None,
     model |-> Absent, usage |-> Absent, metrics |-> Absent,
     error |-> IF e.type = "APIStatusError"
               THEN Str(<<"HTTP", e.status_code, ":">> \o e.msg)
               ELSE Str(e.msg)]

\* lines 185-216: the dict analyze_receipt returns once the stats are in,
\* or the failure of the except clause when merging them raised
SuccessResponse(c, stats) ==
    LET metrics == merge_stats(c.metrics, stats, c.usage_data)
    IN  IF ~metrics.ok
        THEN FailureResponse([type |-> metrics.value.type, status_code |-> "",
                              msg |-> metrics.value.msg])
        ELSE [t |-> "response", success |-> Bool(TRUE), content |-> c.content_to_return,
              model |-> Str(c.model), usage |-> c.usage_data,
              metrics |-> metrics.value, error |-> Absent]

\* the stage the call in flight belongs to
Stages == {"one_shot", "validation", "extraction"}

NoOutcome == [kind |-> "none"]

\* in a second run the model API answers what it answered in the first
SameAsFirstRun(outcome) ==
    IF run = 1 \/ pc \notin Stages THEN TRUE ELSE model_out[pc] = outcome

Recorded(outcome) ==
    IF pc \in Stages /\ run = 1 THEN [model_out EXCEPT ![pc] = outcome] ELSE model_out

\* get_generation_stats returns to analyze_receipt, which returns in turn
Return(c, stats) ==
    [c EXCEPT !.pc = "returned", !.stats = stats, !.result = SuccessResponse(c, stats)]

\* chat.completions.create raises: APIStatusError, APIError or Exception
CreateFails ==
    /\ client.pc = "create"
    /\ \E e \in ApiErrors :
        LET outcome == [kind |-> "error", error |-> e]
        IN  /\ SameAsFirstRun(outcome)
            /\ client' = [client EXCEPT !.pc = "returned", !.result = FailureResponse(e)]
            /\ model_out' = Recorded(outcome)
    /\ UNCHANGED <<max_retries, lookup_log, run, image_out, first_result>>
    /\ UNCHANGED <<parser_vars, extract_vars, validator_vars, task_vars, server_vars>>

\* chat.completions.create returns: lines 157-186, up to the first lookup
CreateReturns ==
    /\ client.pc = "create"
    /\ \E r \in ApiResponses :
        LET outcome == [kind |-> "response", response |-> r]
            c == [client EXCEPT
                    !.generation_id = r.id,
                    !.content_to_return =
                        IF r.choices # <<>> /\ Truthy(r.choices[1].content)
                        THEN r.choices[1].content ELSE None,
                    !.usage_data =
                        IF r.usage # None
                        THEN [t |-> "usage",
                              prompt_tokens |-> Num(r.usage.prompt_tokens),
                              completion_tokens |-> Num(r.usage.completion_tokens),
                              total_tokens |-> Num(r.usage.total_tokens)]
                        ELSE None,
                    !.metrics = [InitialMetrics EXCEPT !.finish_reason =
                                    IF r.choices # <<>>
                                    THEN Str(r.choices[1].finish_reason) ELSE None],
                    !.model = r.model]
        IN  /\ SameAsFirstRun(outcome)
            /\ model_out' = Recorded(outcome)
            /\ IF Truthy(r.id) /\ max_retries > 0
               THEN client' = [c EXCEPT !.pc = "lookup", !.attempt = 0]
               ELSE IF Truthy(r.id)
               THEN client' = Return(c, None)
               ELSE client' = [c EXCEPT !.pc = "returned",
                                        !.result = SuccessResponse(c, None)]
    /\ lookup_log' = <<>>
    /\ UNCHANGED <<max_retries, run, image_out, first_result>>
    /\ UNCHANGED <<parser_vars, extract_vars, validator_vars, task_vars, server_vars>>

\* the loop gives up one attempt early
StatsLookup_GivesUpEarly ==
    /\ client.pc = "lookup"
    /\ \E o \in LookupOutcomes :
        LET raised == o.kind = "exception" \/ (o.status = 200 /\ o.body = Undecodable)
            delay == BackoffDelay(client.attempt)
        IN  /\ lookup_log' = Append(lookup_log, o)
            /\ IF ~raised /\ o.status = 200
               THEN client' = Return(client, GetOr(o.body.data, EmptyStats))
               ELSE IF /\ raised \/ o.status = 404
                       /\ client.attempt < max_retries - 2
               THEN \E jitter \in Jitters(delay) :
                        client' = [client EXCEPT !.pc = "sleep",
                                                 !.total_delay = delay + jitter,
                                                 !.sleeps = @ + 1]
               ELSE client' = Return(client, None)
    /\ UNCHANGED <<max_retries, replay_vars>>
    /\ UNCHANGED <<parser_vars, extract_vars, validator_vars, task_vars, server_vars>>

\* every status other than 200 is retried
StatsLookup_RetriesAnyStatus ==
    /\ client.pc = "lookup"
    /\ \E o \in LookupOutcomes :
        LET raised == o.kind = "exception" \/ (o.status = 200 /\ o.body = Undecodable)
            delay == BackoffDelay(client.attempt)
        IN  /\ lookup_log' = Append(lookup_log, o)
            /\ IF ~raised /\ o.status = 200
               THEN client' = Return(client, GetOr(o.body.data, EmptyStats))
               ELSE IF client.attempt < max_retries - 1
               THEN \E jitter \in Jitters(delay) :
                        client' = [client EXCEPT !.pc = "sleep",
                                                 !.total_delay = delay + jitter,
                                                 !.sleeps = @ + 1]
               ELSE client' = Return(client, None)
    /\ UNCHANGED <<max_retries, replay_vars>>
    /\ UNCHANGED <<parser_vars, extract_vars, validator_vars, task_vars, server_vars>>

\* an exception of the last attempt leaves get_generation_stats
StatsLookup_PropagatesLast ==
    /\ client.pc = "lookup"
    /\ \E o \in LookupOutcomes :
        LET raised == o.kind = "exception" \/ (o.status = 200 /\ o.body = Undecodable)
            delay == BackoffDelay(client.attempt)
        IN  /\ lookup_log' = Append(lookup_log, o)
            /\ IF ~raised /\ o.status = 200
               THEN client' = Return(client, GetOr(o.body.data, EmptyStats))
               ELSE IF /\ raised \/ o.status = 404
                       /\ client.attempt < max_retries - 1
               THEN \E jitter \in Jitters(delay) :
                        client' = [client EXCEPT !.pc = "sleep",
                                                 !.total_delay = delay + jitter,
                                                 !.sleeps = @ + 1]
               ELSE IF raised
               THEN client' = [client EXCEPT !.pc = "raised"]
               ELSE client' = Return(client, None)
    /\ UNCHANGED <<max_retries, replay_vars>>
    /\ UNCHANGED <<parser_vars, extract_vars, validator_vars, task_vars, server_vars>>

\* lines 67-99: one pass of the loop of get_generation_stats, from the
\* request to the return or to the start of the backoff sleep
StatsLookup ==
    /\ client.pc = "lookup"
    /\ \E o \in LookupOutcomes :
        LET raised == o.kind = "exception" \/ (o.status = 200 /\ o.body = Undecodable)
            delay == BackoffDelay(client.attempt)
        IN  /\ lookup_log' = Append(lookup_log, o)
            /\ IF ~raised /\ o.status = 200
               THEN client' = Return(client, GetOr(o.body.data, EmptyStats))
               ELSE IF /\ raised \/ o.status = 404
                       /\ client.attempt < max_retries - 1
               THEN \E jitter \in Jitters(delay) :
                        client' = [client EXCEPT !.pc = "sleep",
                                                 !.total_delay = delay + jitter,
                                                 !.sleeps = @ + 1]
               ELSE client' = Return(client, None)
    /\ UNCHANGED <<max_retries, replay_vars>>
    /\ UNCHANGED <<parser_vars, extract_vars, validator_vars, task_vars, server_vars>>

\* asyncio.sleep(total_delay) is over: continue with the next attempt
StatsSleepDone ==
    /\ client.pc = "sleep"
    /\ client' = [client EXCEPT !.pc = "lookup", !.attempt = client.attempt + 1,
                                !.total_delay = 0]
    /\ UNCHANGED <<max_retries, lookup_log, replay_vars>>
    /\ UNCHANGED <<parser_vars, extract_vars, validator_vars, task_vars, server_vars>>

NextClient == CreateFails \/ CreateReturns \/ StatsLookup \/ StatsSleepDone

-----------------------------------------------------------------------------
(* extraction_orchestrator.py: ExtractionOrchestrator.extract.              *)

\* ResponseParserInterface.extract_json_from_response as extract sees it:
\* it returns the JSON found in the content or raises (re.search raises
\* TypeError on None)
extract_json_from_response(content) ==
    IF content = None
    THEN Raise(Exception("TypeError", <<"expected", "string", "or", "bytes-like", "object">>))
    ELSE IF content.span = NoSpan
    THEN Raise(Exception("ValueError",
                         <<"Impossible", "d'extraire", "un", "objet", "ou", "un",
                           "tableau", "JSON", "complet", "et", "valide.">>))
    ELSE Ok(content.span)

NoneHasNoGet == Exception("AttributeError", <<"'NoneType'", "object", "has", "no", "attribute", "'get'">>)

NoResult == [t |-> "noresult"]

\* the {} that .get("usage", {}) and .get("metrics", {}) default to
EmptyUsage == [t |-> "usage", prompt_tokens |-> Absent, completion_tokens |-> Absent,
               total_tokens |-> Absent]

ImageErrors ==
    { Exception("ValueError", <<"Fichier", "introuvable">>),
      Exception("OSError", <<"cannot", "identify", "image", "file">>) }

\* what one continuation of extract did
Step(res, site, parser_called, validator_called) ==
    [result |-> res, site |-> site, parser |-> parser_called,
     validator |-> validator_called]

\* _extract_one_shot, lines 88-104, once analyze_receipt has returned resp
one_shot_after(resp) ==
    IF ~Truthy(resp.success)
    THEN Step(handle_api_error(Exception("Exception", resp.error.v)),
              "api_one_shot", FALSE, FALSE)
    ELSE LET json_content == extract_json_from_response(resp.content)
             receipt_data == parse_receipt_json(json_content.value)
         IN  IF ~json_content.ok
             THEN Step(handle_parsing_error(json_content.value, resp.content),
                       "parse_one_shot", TRUE, FALSE)
             ELSE IF ~receipt_data.ok
             THEN Step(handle_parsing_error(receipt_data.value, resp.content),
                       "parse_one_shot", TRUE, TRUE)
             ELSE Step([success |-> Bool(TRUE), error |-> Absent,
                        data |-> model_dump(receipt_data.value),
                        is_receipt |-> Bool(IsReceiptData(receipt_data.value)),
                        usage |-> GetOr(resp.usage, EmptyUsage),
                        metrics |-> GetOr(resp.metrics, EmptyUsage),
                        raw_response |-> resp.content],
                       "none", TRUE, TRUE)

\* the verdict is not read
verdict_AlwaysTrue(validation_data) == TRUE

\* line 130: validation_data.get("is_receipt", False), tested for truth
verdict(validation_data) == Truthy(GetOr(validation_data.is_receipt, Bool(FALSE)))

\* the usage of the validation call is left out
not_a_receipt_WithoutUsage(validation_data, validation_resp) ==
    [success |-> Bool(TRUE), error |-> Absent, data |-> validation_data,
     is_receipt |-> Bool(FALSE),
     usage |-> EmptyUsage,
     metrics |-> GetOr(validation_resp.metrics, EmptyUsage),
     raw_response |-> Absent]

\* lines 131-138: the result for an image that is not a receipt
not_a_receipt(validation_data, validation_resp) ==
    [success |-> Bool(TRUE), error |-> Absent, data |-> validation_data,
     is_receipt |-> Bool(FALSE),
     usage |-> GetOr(validation_resp.usage, EmptyUsage),
     metrics |-> GetOr(validation_resp.metrics, EmptyUsage),
     raw_response |-> Absent]

\* _extract_two_step, lines 125-141; result = NoResult: go on to step 2
validation_after(resp) ==
    IF ~Truthy(resp.success)
    THEN Step(handle_api_validation_error(Exception("Exception", resp.error.v)),
              "api_validation", FALSE, FALSE)
    ELSE LET validation_json == extract_json_from_response(resp.content)
             validation_data == validation_json.value
         IN  IF ~validation_json.ok
             THEN Step(handle_validation_error(validation_json.value),
                       "parse_validation", TRUE, FALSE)
             ELSE IF validation_data.t # "dict"
             THEN Step(handle_validation_error(
                           Exception("AttributeError",
                                     <<"object", "has", "no", "attribute", "'get'">>)),
                       "parse_validation", TRUE, FALSE)
             ELSE IF ~verdict(validation_data)
             THEN Step(not_a_receipt(validation_data, resp), "none", TRUE, FALSE)
             ELSE Step(NoResult, "none", TRUE, FALSE)

\* total_tokens counts the extraction call only
total_usage_ExtractionOnly(validation_usage, extraction_usage) ==
    [t |-> "total_usage",
     validation |-> validation_usage,
     extraction |-> extraction_usage,
     total_tokens |-> Num(GetOr(extraction_usage.total_tokens, Num(0)).v)]

\* lines 162-169: the usage of a run that made both calls
total_usage(validation_usage, extraction_usage) ==
    [t |-> "total_usage",
     validation |-> validation_usage,
     extraction |-> extraction_usage,
     total_tokens |-> Num(GetOr(validation_usage.total_tokens, Num(0)).v
                          + GetOr(extraction_usage.total_tokens, Num(0)).v)]

\* _extract_two_step, lines 156-185
extraction_after(val_resp, resp) ==
    IF ~Truthy(resp.success)
    THEN Step(handle_api_extraction_error(Exception("Exception", resp.error.v)),
              "api_extraction", FALSE, FALSE)
    ELSE LET json_content == extract_json_from_response(resp.content)
             receipt_data == parse_receipt_json(json_content.value)
         IN  IF ~json_content.ok
             THEN Step(handle_parsing_error(json_content.value, resp.content),
                       "parse_extraction", TRUE, FALSE)
             ELSE IF ~receipt_data.ok
             THEN Step(handle_parsing_error(receipt_data.value, resp.content),
                       "parse_extraction", TRUE, TRUE)
             ELSE LET validation_usage == GetOr(val_resp.usage, EmptyUsage)
                      extraction_usage == GetOr(resp.usage, EmptyUsage)
                  IN  IF validation_usage = None \/ extraction_usage = None
                      THEN Step(handle_parsing_error(NoneHasNoGet, resp.content),
                                "parse_extraction", TRUE, TRUE)
                      ELSE Step([success |-> Bool(TRUE), error |-> Absent,
                                 data |-> model_dump(receipt_data.value),
                                 is_receipt |-> Bool(TRUE),
                                 usage |-> total_usage(validation_usage, extraction_usage),
                                 metrics |-> [t |-> "combined_metrics",
                                              validation |-> GetOr(val_resp.metrics, EmptyUsage),
                                              extraction |-> GetOr(resp.metrics, EmptyUsage)],
                                 raw_response |-> resp.content],
                                "none", TRUE, TRUE)

Called(calls, called) == IF called THEN Append(calls, pc) ELSE calls

\* extract returns res
Finish(step) ==
    /\ result' = step.result
    /\ error_site' = step.site
    /\ parser_calls' = Called(parser_calls, step.parser)
    /\ validator_calls' = Called(validator_calls, step.validator)
    /\ pc' = "done"

\* the image failure is recorded but the pipeline goes on to the API call
ImageFails_GoesOn ==
    /\ pc = "image"
    /\ \E e \in ImageErrors :
        LET outcome == [kind |-> "error", error |-> e]
        IN  /\ IF run = 1 THEN TRUE ELSE image_out = outcome
            /\ image_out' = outcome
            /\ result' = handle_image_processing_error(e)
            /\ error_site' = "image"
    /\ pc' = IF two_step THEN "validation" ELSE "one_shot"
    /\ api_calls' = Append(api_calls, pc')
    /\ client' = [ClientIdle EXCEPT !.pc = "create"]
    /\ UNCHANGED <<response, validation_response, extraction_response, two_step,
                   parser_calls, validator_calls, max_retries, lookup_log,
                   run, model_out, first_result>>
    /\ UNCHANGED <<parser_vars, validator_vars, task_vars, server_vars>>

\* lines 54-62: process_image_in_memory raises
ImageFails ==
    /\ pc = "image"
    /\ \E e \in ImageErrors :
        LET outcome == [kind |-> "error", error |-> e]
        IN  /\ IF run = 1 THEN TRUE ELSE image_out = outcome
            /\ image_out' = outcome
            /\ Finish(Step(handle_image_processing_error(e), "image", FALSE, FALSE))
    /\ UNCHANGED <<response, validation_response, extraction_response, two_step,
                   api_calls, run, model_out, first_result>>
    /\ UNCHANGED <<parser_vars, client_vars, validator_vars, task_vars, server_vars>>

\* lines 64-69 and 75-84 or 110-121: the image is ready and the first
\* analyze_receipt call is issued
ImageReady ==
    /\ pc = "image"
    /\ LET outcome == [kind |-> "ok", error |-> Exception("", <<>>)]
       IN  /\ IF run = 1 THEN TRUE ELSE image_out = outcome
           /\ image_out' = outcome
    /\ pc' = IF two_step THEN "validation" ELSE "one_shot"
    /\ api_calls' = Append(api_calls, pc')
    /\ client' = [ClientIdle EXCEPT !.pc = "create"]
    /\ UNCHANGED <<response, validation_response, extraction_response, two_step,
                   result, parser_calls, validator_calls, error_site,
                   max_retries, lookup_log, run, model_out, first_result>>
    /\ UNCHANGED <<parser_vars, validator_vars, task_vars, server_vars>>

\* the except clauses around the three calls: analyze_receipt itself raises
AnalyzeRaises ==
    /\ pc \in Stages
    /\ client.pc = "create"
    /\ \E e \in ApiErrors :
        LET outcome == [kind |-> "raise", error |-> e]
            error == Exception(e.type, e.msg)
        IN  /\ SameAsFirstRun(outcome)
            /\ model_out' = Recorded(outcome)
            /\ Finish(CASE pc = "one_shot" ->
                             Step(handle_api_error(error), "api_one_shot", FALSE, FALSE)
                        [] pc = "validation" ->
                             Step(handle_api_validation_error(error), "api_validation", FALSE, FALSE)
                        [] pc = "extraction" ->
                             Step(handle_api_extraction_error(error), "api_extraction", FALSE, FALSE))
    /\ client' = ClientIdle
    /\ UNCHANGED <<response, validation_response, extraction_response, two_step,
                   api_calls, max_retries, lookup_log, run, image_out, first_result>>
    /\ UNCHANGED <<parser_vars, validator_vars, task_vars, server_vars>>

\* _extract_one_shot resumes with the response
OneShotContinue ==
    /\ pc = "one_shot"
    /\ client.pc = "returned"
    /\ response' = client.result
    /\ Finish(one_shot_after(client.result))
    /\ client' = ClientIdle
    /\ UNCHANGED <<validation_response, extraction_response, two_step, api_calls,
                   max_retries, lookup_log, replay_vars>>
    /\ UNCHANGED <<parser_vars, validator_vars, task_vars, server_vars>>

\* _extract_two_step resumes with the validation response; when the verdict
\* is true it issues the extraction call (lines 143-152)
ValidationContinue ==
    /\ pc = "validation"
    /\ client.pc = "returned"
    /\ validation_response' = client.result
    /\ LET step == validation_after(client.result)
       IN  IF step.result # NoResult
           THEN /\ Finish(step)
                /\ client' = ClientIdle
                /\ UNCHANGED api_calls
           ELSE /\ pc' = "extraction"
                /\ api_calls' = Append(api_calls, "extraction")
                /\ client' = [ClientIdle EXCEPT !.pc = "create"]
                /\ parser_calls' = Called(parser_calls, step.parser)
                /\ UNCHANGED <<result, error_site, validator_calls>>
    /\ UNCHANGED <<response, extraction_response, two_step,
                   max_retries, lookup_log, replay_vars>>
    /\ UNCHANGED <<parser_vars, validator_vars, task_vars, server_vars>>

\* _extract_two_step resumes with the extraction response
ExtractionContinue ==
    /\ pc = "extraction"
    /\ client.pc = "returned"
    /\ extraction_response' = client.result
    /\ Finish(extraction_after(validation_response, client.result))
    /\ client' = ClientIdle
    /\ UNCHANGED <<response, validation_response, two_step, api_calls,
                   max_retries, lookup_log, replay_vars>>
    /\ UNCHANGED <<parser_vars, validator_vars, task_vars, server_vars>>

NextExtract ==
    \/ ImageFails \/ ImageReady \/ AnalyzeRaises
    \/ OneShotContinue \/ ValidationContinue \/ ExtractionContinue

\* the awaits of a run at which the event loop can deliver a cancellation:
\* chat.completions.create, http_client.get and asyncio.sleep
InFlight == client.pc \in {"create", "lookup", "sleep"}

\* the CancelledError is caught by the except Exception clauses of
\* analyze_receipt and get_generation_stats like any other exception
Cancel_CaughtAsException ==
    /\ InFlight
    /\ client' =
          IF client.pc = "create"
          THEN [client EXCEPT !.cancelled = TRUE, !.pc = "returned",
                              !.result = FailureResponse(
                                  [type |-> "CancelledError", status_code |-> "",
                                   msg |-> <<"cancelled">>])]
          ELSE IF client.pc = "lookup" /\ client.attempt < max_retries - 1
          THEN [client EXCEPT !.cancelled = TRUE, !.pc = "sleep",
                              !.total_delay = BackoffDelay(client.attempt),
                              !.sleeps = @ + 1]
          ELSE [Return(client, None) EXCEPT !.cancelled = TRUE]
    /\ UNCHANGED <<max_retries, lookup_log, replay_vars>>
    /\ UNCHANGED <<parser_vars, extract_vars, validator_vars, task_vars, server_vars>>

\* the retry loop of get_generation_stats takes the CancelledError for a
\* transport exception: it sleeps and goes on with the next attempt
Cancel_RetriedByStatsLoop ==
    /\ InFlight
    /\ client' =
          IF client.pc = "create"
          THEN [client EXCEPT !.cancelled = TRUE, !.pc = "cancelled"]
          ELSE IF client.pc = "sleep"
          THEN [client EXCEPT !.cancelled = TRUE, !.pc = "lookup",
                              !.attempt = client.attempt + 1, !.total_delay = 0]
          ELSE IF client.attempt < max_retries - 1
          THEN [client EXCEPT !.cancelled = TRUE, !.pc = "sleep",
                              !.total_delay = BackoffDelay(client.attempt),
                              !.sleeps = @ + 1]
          ELSE [Return(client, None) EXCEPT !.cancelled = TRUE]
    /\ pc' = IF pc \in Stages /\ client.pc = "create" THEN "cancelled" ELSE pc
    /\ UNCHANGED <<two_step, response, validation_response, extraction_response,
                   result, api_calls, parser_calls, validator_calls, error_site>>
    /\ UNCHANGED <<max_retries, lookup_log, replay_vars>>
    /\ UNCHANGED <<parser_vars, validator_vars, task_vars, server_vars>>

\* the caller cancels the task while it is suspended in analyze_receipt:
\* asyncio raises CancelledError at the await; it is a BaseException, so no
\* except Exception clause of get_generation_stats, analyze_receipt or
\* extract catches it, and it leaves extract
Cancel ==
    /\ InFlight
    /\ client' = [client EXCEPT !.cancelled = TRUE, !.pc = "cancelled"]
    /\ pc' = IF pc \in Stages THEN "cancelled" ELSE pc
    /\ UNCHANGED <<two_step, response, validation_response, extraction_response,
                   result, api_calls, parser_calls, validator_calls, error_site>>
    /\ UNCHANGED <<max_retries, lookup_log, replay_vars>>
    /\ UNCHANGED <<parser_vars, validator_vars, task_vars, server_vars>>

\* the parser is not running
ParserIdle ==
    /\ embedded = Texts(<<>>, <<>>, <<>>)
    /\ response_text = <<>>
    /\ ppc = "idle"
    /\ scan = ScanInit
    /\ parsed = NotCalled
    /\ json_data = None
    /\ vpc = "idle"
    /\ validated = NotValidated

\* a single call of extract
NoTask == [pc |-> "none"]
OneTask == other = NoTask /\ cur = 1

NoReplay ==
    /\ run = 1
    /\ image_out = NoOutcome
    /\ model_out = [st \in Stages |-> NoOutcome]
    /\ first_result = NoResult

\* extract(image_path, optimize_image, two_step) has been called and awaits
\* the image
Init ==
    /\ ParserIdle
    /\ max_retries = DefaultMaxRetries
    /\ client = ClientIdle
    /\ lookup_log = <<>>
    /\ two_step \in BOOLEAN
    /\ pc = "image"
    /\ response = None
    /\ validation_response = None
    /\ extraction_response = None
    /\ result = NoResult
    /\ api_calls = <<>>
    /\ parser_calls = <<>>
    /\ validator_calls = <<>>
    /\ error_site = "none"
    /\ NoReplay
    /\ OneTask
    /\ ServerIdle

Next == NextExtract \/ NextClient

Spec == Init /\ [][Next]_vars

\* a run of extract that the caller may cancel
NextCancel == Next \/ Cancel

SpecCancel == Init /\ [][NextCancel]_vars

\* analyze_receipt called on its own, for every max_retries up to MaxRetries
InitClient ==
    /\ ParserIdle
    /\ max_retries \in 0..MaxRetries
    /\ client = [ClientIdle EXCEPT !.pc = "create"]
    /\ lookup_log = <<>>
    /\ two_step = FALSE
    /\ pc = "idle"
    /\ response = None
    /\ validation_response = None
    /\ extraction_response = None
    /\ result = NoResult
    /\ api_calls = <<>>
    /\ parser_calls = <<>>
    /\ validator_calls = <<>>
    /\ error_site = "none"
    /\ NoReplay
    /\ OneTask
    /\ ServerIdle

SpecClient == InitClient /\ [][NextClient]_vars

\* the event loop resumes analyze_receipt whenever the await it is at has
\* completed: the request has a timeout and every sleep is finite
SpecClientFair == InitClient /\ [][NextClient]_vars /\ WF_vars(NextClient)

\* analyze_receipt called on its own, which the caller may cancel
NextClientCancel == NextClient \/ Cancel

SpecClientCancel == InitClient /\ [][NextClientCancel]_vars

\* what two runs are compared on: the success flag, the data and is_receipt
Outcome(res) ==
    [t |-> "outcome", success |-> res.success, data |-> res.data,
     is_receipt |-> res.is_receipt]

\* extract is called again on the same image, in the same mode
SecondRun ==
    /\ pc = "done"
    /\ run = 1
    /\ run' = 2
    /\ first_result' = Outcome(result)
    /\ pc' = "image"
    /\ response' = None
    /\ validation_response' = None
    /\ extraction_response' = None
    /\ result' = NoResult
    /\ api_calls' = <<>>
    /\ parser_calls' = <<>>
    /\ validator_calls' = <<>>
    /\ error_site' = "none"
    /\ lookup_log' = <<>>
    /\ UNCHANGED <<two_step, max_retries, client, image_out, model_out>>
    /\ UNCHANGED <<parser_vars, validator_vars, task_vars, server_vars>>

NextTwoRuns == Next \/ SecondRun

SpecTwoRuns == Init /\ [][NextTwoRuns]_vars

\* asyncio.gather on two extract calls of one orchestrator: the event loop
\* runs one call at a time and changes call only where the running call
\* awaits.  Everything a call works on is a local of extract, of
\* analyze_receipt or of get_generation_stats; the orchestrator and the client
\* hold the configuration and the HTTP client, set in __init__.
Locals ==
    [two_step |-> two_step, pc |-> pc, response |-> response,
     validation_response |-> validation_response,
     extraction_response |-> extraction_response, result |-> result,
     api_calls |-> api_calls, parser_calls |-> parser_calls,
     validator_calls |-> validator_calls, error_site |-> error_site,
     client |-> client, lookup_log |-> lookup_log,
     image_out |-> image_out, model_out |-> model_out]

\* a call as it is before its first step
NewCall(mode) ==
    [two_step |-> mode, pc |-> "image", response |-> None,
     validation_response |-> None, extraction_response |-> None,
     result |-> NoResult, api_calls |-> <<>>, parser_calls |-> <<>>,
     validator_calls |-> <<>>, error_site |-> "none",
     client |-> ClientIdle, lookup_log |-> <<>>,
     image_out |-> NoOutcome, model_out |-> [st \in Stages |-> NoOutcome]]

\* the running call is at an await, has not started or has returned
Suspended == InFlight \/ pc \in {"image", "done"}

\* the analyze_receipt call in flight is kept on the client object, so the
\* call that resumes finds the one of the call that was running
Switch_SharesClient ==
    /\ Suspended
    /\ other.pc # "done"
    /\ cur' = 3 - cur
    /\ other' = Locals
    /\ two_step' = other.two_step
    /\ pc' = other.pc
    /\ response' = other.response
    /\ validation_response' = other.validation_response
    /\ extraction_response' = other.extraction_response
    /\ result' = other.result
    /\ api_calls' = other.api_calls
    /\ parser_calls' = other.parser_calls
    /\ validator_calls' = other.validator_calls
    /\ error_site' = other.error_site
    /\ lookup_log' = other.lookup_log
    /\ image_out' = other.image_out
    /\ model_out' = other.model_out
    /\ UNCHANGED <<client, max_retries, run, first_result>>
    /\ UNCHANGED <<parser_vars, validator_vars, server_vars>>

\* the event loop leaves the running call at its await and resumes the other
Switch ==
    /\ Suspended
    /\ other.pc # "done"
    /\ cur' = 3 - cur
    /\ other' = Locals
    /\ two_step' = other.two_step
    /\ pc' = other.pc
    /\ response' = other.response
    /\ validation_response' = other.validation_response
    /\ extraction_response' = other.extraction_response
    /\ result' = other.result
    /\ api_calls' = other.api_calls
    /\ parser_calls' = other.parser_calls
    /\ validator_calls' = other.validator_calls
    /\ error_site' = other.error_site
    /\ client' = other.client
    /\ lookup_log' = other.lookup_log
    /\ image_out' = other.image_out
    /\ model_out' = other.model_out
    /\ UNCHANGED <<max_retries, run, first_result>>
    /\ UNCHANGED <<parser_vars, validator_vars, server_vars>>

\* the answers the two calls are run with
FewContents ==
    { Text("no json in it", NoSpan),
      Text("a receipt", ReceiptDoc),
      Text("not a receipt", Object(Bool(FALSE), Str("blank page"), Absent, Absent, Absent)) }

FewResponses ==
    [id : {None, Str("gen-1")},
     choices : {<<Choice(c)>> : c \in FewContents},
     usage : {[prompt_tokens |-> 7, completion_tokens |-> 3, total_tokens |-> 10]},
     model : {"meta-llama/llama-4-scout"}]

FewOutcome(o) ==
    CASE o.kind = "none" -> TRUE
      [] o.kind = "response" -> o.response \in FewResponses
      [] OTHER -> o.error.type = "APIStatusError"

FewLookup(o) ==
    /\ o.kind = "response"
    /\ \/ o.status = 404
       \/ o.status = 200 /\ o.body = [t |-> "body", data |-> Stats(Num(120), Num(800), Num(2))]

FewAnswers ==
    /\ \A st \in Stages : FewOutcome(model_out[st])
    /\ \A k \in DOMAIN lookup_log : FewLookup(lookup_log[k])
    /\ image_out.kind = "error" => image_out.error.type = "ValueError"

InitConcurrent ==
    /\ embedded = Texts(<<>>, <<>>, <<>>)
    /\ response_text = <<>>
    /\ ppc = "idle"
    /\ scan = ScanInit
    /\ parsed = NotCalled
    /\ json_data = None
    /\ vpc = "idle"
    /\ validated = NotValidated
    /\ max_retries = ConcurrentRetries
    /\ client = ClientIdle
    /\ lookup_log = <<>>
    /\ two_step \in BOOLEAN
    /\ pc = "image"
    /\ response = None
    /\ validation_response = None
    /\ extraction_response = None
    /\ result = NoResult
    /\ api_calls = <<>>
    /\ parser_calls = <<>>
    /\ validator_calls = <<>>
    /\ error_site = "none"
    /\ NoReplay
    /\ cur = 1
    /\ other \in {NewCall(mode) : mode \in BOOLEAN}
    /\ ServerIdle

\* a step of the running call, on one of the few answers
RunningCallSteps == Next /\ FewAnswers'

NextConcurrent == RunningCallSteps \/ Switch

SpecConcurrent == InitConcurrent /\ [][NextConcurrent]_vars

-----------------------------------------------------------------------------
(* analyze_bill, the handler of POST /analyze-bill.  A path and a string    *)
(* are sequences of pieces, so that startswith, split and replace act on    *)
(* them as they do in Python.  The disk is the set of the paths that exist. *)

\* files the caller owns
CallerFiles == {<<"/data/", "receipt.jpg">>, <<"/data/", "photo.jpg">>}

\* the name tempfile.NamedTemporaryFile(delete=False, suffix='.jpg') picks:
\* a path that does not exist yet
TempName == <<"/tmp/", "tmpk3x9", ".jpg">>

\* values of imageData; the base64 text "QUJD" has correct padding and "QUJ"
\* has not
ImageDatas ==
    {<<"QUJD">>, <<"QUJ">>,
     <<"data:", "image/jpeg;base64", ",", "QUJD">>,
     <<"data:", "image/jpeg;base64", ",", "QUJ">>,
     <<"data:", "image/jpeg;base64">>}

\* values of imageUri
ImageUris ==
    {<<"file://", "/data/", "receipt.jpg">>,
     <<"file://", "/data/", "photo.jpg">>,
     <<"file://", "/data/", "missing.jpg">>,
     <<"http://", "host/", "receipt.jpg">>,
     <<"/data/", "receipt.jpg">>}

Requests ==
    {[NoRequest EXCEPT !.kind = "image", !.image_file = b] : b \in BOOLEAN}
    \cup {[NoRequest EXCEPT !.kind = "imageData", !.image_data = d] : d \in ImageDatas}
    \cup {[NoRequest EXCEPT !.kind = "imageUri", !.image_uri = u] : u \in ImageUris}
    \cup {[NoRequest EXCEPT !.kind = "empty"]}

\* str.startswith(prefix), prefix a single piece
startswith(str, prefix) == str # <<>> /\ str[1] = prefix

\* str.replace(old, ''): every occurrence of the piece is removed
replace(str, old) == SelectSeq(str, LAMBDA piece : piece # old)

RECURSIVE UpTo(_, _)
\* the pieces of str before the first occurrence of sep
UpTo(str, sep) ==
    IF str = <<>> \/ Head(str) = sep THEN <<>>
    ELSE <<Head(str)>> \o UpTo(Tail(str), sep)

HasPiece(str, sep) == \E k \in 1..Len(str) : str[k] = sep

\* str.split(',')[1]: the part between the first comma and the second;
\* IndexError when str holds no comma
split_1(str) ==
    IF ~HasPiece(str, ",")
    THEN [ok |-> FALSE, value |-> <<>>]
    ELSE [ok |-> TRUE,
          value |-> UpTo(SubSeq(str, Len(UpTo(str, ",")) + 2, Len(str)), ",")]

\* base64.b64decode(text): the bytes, or binascii.Error on incorrect padding
b64decode(text) ==
    IF Len(text) = 1 /\ text[1] = "QUJD"
    THEN [ok |-> TRUE, value |-> <<"A", "B", "C">>]
    ELSE [ok |-> FALSE, value |-> <<>>]

\* lines 125-134: the base64 text of imageData, decoded
decoded(image_data) ==
    IF startswith(image_data, "data:")
    THEN IF split_1(image_data).ok
         THEN b64decode(split_1(image_data).value)
         ELSE [ok |-> FALSE, value |-> <<>>]
    ELSE b64decode(image_data)

\* analyze_bill returns a response with this status
Reply(status) ==
    handler' = [handler EXCEPT !.pc = "done", !.status = status]

\* the temporary file is created and, when it was written, becomes image_path
\* (lines 117-119 and 137-141); a failed write leaves the 'with' block by an
\* exception, which ends the request with the status given
SaveTemp(written, status_on_error) ==
    /\ files' = files \cup {TempName}
    /\ handler' = IF written
                  THEN [handler EXCEPT !.pc = "ready", !.image_path = TempName,
                                       !.created = {TempName}]
                  ELSE [handler EXCEPT !.pc = "done", !.created = {TempName},
                                       !.status = status_on_error]

\* Flask hands a request to analyze_bill
Receive ==
    /\ handler.pc = "idle"
    /\ request' \in Requests
    /\ handler' = [handler EXCEPT !.pc = "received"]
    /\ UNCHANGED files
    /\ UNCHANGED <<parser_vars, client_vars, extract_vars, replay_vars,
                   validator_vars, task_vars>>

\* analyze_bill, lines 92-169: the image of the request becomes image_path
Prepare ==
    /\ handler.pc = "received"
    /\ IF ~handler.ai_agent
       THEN Reply(500) /\ UNCHANGED files
       ELSE CASE request.kind = "image" ->
                   IF ~request.image_file
                   THEN Reply(400) /\ UNCHANGED files
                   ELSE \E written \in BOOLEAN : SaveTemp(written, 500)
              [] request.kind = "imageData" ->
                   IF ~decoded(request.image_data).ok
                   THEN Reply(400) /\ UNCHANGED files
                   ELSE \E written \in BOOLEAN : SaveTemp(written, 400)
              [] request.kind = "imageUri" ->
                   IF ~startswith(request.image_uri, "file://")
                   THEN Reply(400) /\ UNCHANGED files
                   ELSE IF replace(request.image_uri, "file://") \notin files
                   THEN Reply(400) /\ UNCHANGED files
                   ELSE /\ handler' = [handler EXCEPT
                                          !.pc = "ready",
                                          !.image_path =
                                              replace(request.image_uri, "file://")]
                        /\ UNCHANGED files
              [] OTHER -> Reply(400) /\ UNCHANGED files
    /\ UNCHANGED request
    /\ UNCHANGED <<parser_vars, client_vars, extract_vars, replay_vars,
                   validator_vars, task_vars>>

\* what loop.run_until_complete(ai_agent.extract(...)) does
Outcomes == {"success", "failure", "raised"}

\* analyze_bill, lines 173-190: extract runs on image_path and the 'finally'
\* unlinks image_path (a failing unlink is ignored); an exception raised by
\* the run reaches the handler's 'except' after the 'finally'
Process ==
    /\ handler.pc = "ready"
    /\ \E outcome \in Outcomes :
          handler' = IF outcome = "raised"
                     THEN [handler EXCEPT !.pc = "done", !.result = outcome,
                                          !.status = 500]
                     ELSE [handler EXCEPT !.pc = "extracted", !.result = outcome]
    /\ files' = files \ {handler.image_path}
    /\ UNCHANGED request
    /\ UNCHANGED <<parser_vars, client_vars, extract_vars, replay_vars,
                   validator_vars, task_vars>>

\* analyze_bill, lines 192-208: the result becomes the response
Respond ==
    /\ handler.pc = "extracted"
    /\ Reply(IF handler.result = "success" THEN 200 ELSE 500)
    /\ UNCHANGED <<request, files>>
    /\ UNCHANGED <<parser_vars, client_vars, extract_vars, replay_vars,
                   validator_vars, task_vars>>

\* a request arrives at a server whose disk holds some of the caller's files
\* and whose agent was or was not initialised
InitServer ==
    /\ ParserIdle
    /\ max_retries = DefaultMaxRetries
    /\ client = ClientIdle
    /\ lookup_log = <<>>
    /\ two_step = FALSE
    /\ pc = "idle"
    /\ response = None
    /\ validation_response = None
    /\ extraction_response = None
    /\ result = NoResult
    /\ api_calls = <<>>
    /\ parser_calls = <<>>
    /\ validator_calls = <<>>
    /\ error_site = "none"
    /\ NoReplay
    /\ OneTask
    /\ request = NoRequest
    /\ files \in SUBSET CallerFiles
    /\ handler \in {[HandlerIdle EXCEPT !.ai_agent = b] : b \in BOOLEAN}

NextServer == Receive \/ Prepare \/ Process \/ Respond

SpecServer == InitServer /\ [][NextServer]_vars

-----------------------------------------------------------------------------
(* Properties of extract_json_from_response (SpecParser).                   *)

HasChar(s, chars) == \E k \in 1..Len(s) : s[k] \in chars

ParserDone == ppc = "done"
HasEmbedded == embedded.doc # <<>>

\* every document of Docs is a well-formed JSON object or array
DocsAreJson == \A d \in Docs : json_loads_kind(d) \in {"object", "array"}

\* the surrounding text holds no closing bracket and no quote, so that the
\* embedded document is the only well-formed object or array of the text
SurroundingUnambiguous ==
    /\ ~HasChar(embedded.pre, {"}", "]", "\""})
    /\ ~HasChar(embedded.post, {"}", "]", "\""})

\* C4 as stated: whatever surrounds one embedded well-formed JSON object or
\* array, extract_json_from_response returns exactly that document.
C4_AnySurroundingText ==
    (ParserDone /\ HasEmbedded /\ SurroundingUnambiguous)
        => parsed = Returned(embedded.doc)

\* C4 (amended): when the text in front of the embedded JSON object or array
\* holds no opening brace, opening bracket, double quote or backslash, and
\* the text holds no opening json fence, extract_json_from_response returns
\* exactly the embedded document, whatever follows it and whatever brackets
\* its string values contain.
C4_EmbeddedJsonReturned ==
    (/\ ParserDone
     /\ HasEmbedded
     /\ ~HasChar(embedded.pre, {"{", "[", "\"", "\\"})
     /\ ~Contains(response_text, FenceOpen))
        => parsed = Returned(embedded.doc)

\* a document whose string value holds an unbalanced closing bracket, between
\* prose and a stray closing brace, has been returned
C4_Witness ==
    /\ ParserDone
    /\ embedded = Texts(<<"a">>, <<"[", "\"", "]", "\"", "]">>, <<"}">>)
    /\ parsed = Returned(embedded.doc)

IsSubstring(sub, s) ==
    \E a \in 0..Len(s) : IsAt(s, sub, a)

\* C5: every value returned by extract_json_from_response is a contiguous
\* substring of the input that parses as a JSON object or array (so a text
\* without any valid object or array makes the call raise).
C5_ReturnsObjectOrArray ==
    parsed.kind = "return"
        => /\ IsSubstring(parsed.value, response_text)
           /\ json_loads_kind(parsed.value) \in {"object", "array"}

-----------------------------------------------------------------------------
(* Properties of get_generation_stats (SpecClient).                         *)

Is404(o) == o.kind = "response" /\ o.status = 404
Is200(o) == o.kind = "response" /\ o.status = 200 /\ o.body # Undecodable

\* the first k lookups all answered 404
First404(k) == \A j \in 1..k : Is404(lookup_log[j])

LookupReturned == client.pc = "returned" /\ lookup_log # <<>>

\* C10: with max_retries = n, when the lookups 0..k-1 answer 404 the loop
\* goes on to lookup k for every k < n; when lookup k then answers 200 with a
\* JSON body, get_generation_stats returns the data of that body; when all n
\* lookups answer 404 it returns None, and analyze_receipt still succeeds.
C10_StatsAfter404s ==
    LET k == Len(lookup_log) - 1
    IN  /\ Len(lookup_log) <= max_retries
        /\ (lookup_log # <<>> /\ First404(k + 1) /\ k + 1 < max_retries)
               => client.pc \in {"sleep", "lookup"}
        /\ (LookupReturned /\ First404(k) /\ Is200(lookup_log[k + 1]))
               => client.stats = GetOr(lookup_log[k + 1].body.data, EmptyStats)
        /\ (LookupReturned /\ First404(k + 1))
               => /\ k + 1 = max_retries
                  /\ client.stats = None
                  /\ client.result.success = Bool(TRUE)

\* three 404 and then a 200 on the fourth of four attempts
C10_Witness ==
    /\ max_retries = 4
    /\ LookupReturned
    /\ Len(lookup_log) = 4
    /\ First404(3)
    /\ Is200(lookup_log[4])
    /\ client.stats = Stats(Num(120), Num(800), Num(2))

\* a lookup whose handling raised: the request itself, or response.json()
RaisedIn(o) == o.kind = "exception" \/ (o.status = 200 /\ o.body = Undecodable)

\* the sleeps taken so far, given the requests issued so far
SleepsFollowRequests ==
    /\ client.pc = "lookup" => client.sleeps = Len(lookup_log)
    /\ client.pc = "sleep" =>
          client.sleeps = Len(lookup_log) /\ Len(lookup_log) < max_retries
    /\ LookupReturned => client.sleeps = Len(lookup_log) - 1

-----------------------------------------------------------------------------
(* Properties of ExtractionOrchestrator.extract (Spec, SpecTwoRuns).        *)

Done == pc = "done"
Failed == Done /\ ~result.success.v

HasPrefix(msg, prefix) ==
    Len(msg) >= Len(prefix) /\ SubSeq(msg, 1, Len(prefix)) = prefix

\* the JSON value the validation response holds, when it holds a JSON object
ValidationData == extract_json_from_response(validation_response.content).value

ValidationParsed ==
    /\ validation_response # None
    /\ validation_response.success = Bool(TRUE)
    /\ extract_json_from_response(validation_response.content).ok
    /\ ValidationData.t = "dict"

\* C1: whatever the stages do, in both modes, extract ends in a result whose
\* success field is a boolean (no exception leaves extract), and a result
\* with success false carries an error message and data None.
C1_AlwaysAResult ==
    /\ pc \in {"image", "one_shot", "validation", "extraction", "done"}
    /\ Done => /\ result # NoResult
               /\ result.success.t = "bool"
               /\ ~result.success.v => /\ result.error.t = "str"
                                       /\ result.error.v # <<>>
                                       /\ result.data = None

\* a two-step run whose extraction response has a null content
C1_Witness ==
    /\ Failed
    /\ two_step
    /\ extraction_response # None
    /\ extraction_response.success = Bool(TRUE)
    /\ extraction_response.content = None
    /\ HasPrefix(result.error.v, <<"Erreur", "de", "parsing", ":">>)

ReportsNotAReceipt ==
    /\ ValidationParsed
    /\ IsFalse(ValidationData.is_receipt)

\* C2: in two-step mode, when the validation response says is_receipt false,
\* extract returns success true with is_receipt false, the validation call
\* is the only API call of the run, and the usage and metrics of the result
\* are those of the validation response.
C2_NotAReceiptStopsAfterValidation ==
    (two_step /\ Done /\ ReportsNotAReceipt)
        => /\ result.success = Bool(TRUE)
           /\ result.is_receipt = Bool(FALSE)
           /\ api_calls = <<"validation">>
           /\ result.usage = validation_response.usage
           /\ result.metrics = validation_response.metrics

C2_Witness ==
    /\ two_step
    /\ Done
    /\ ReportsNotAReceipt
    /\ ValidationData.reason = Str("blank page")
    /\ validation_response.usage # None
    /\ result.usage = validation_response.usage
    /\ api_calls = <<"validation">>

\* the calls a run has issued when it fails at a site
CallsAt(site) ==
    CASE site = "image" -> <<>>
      [] site \in {"api_one_shot", "parse_one_shot"} -> <<"one_shot">>
      [] site \in {"api_validation", "parse_validation"} -> <<"validation">>
      [] site \in {"api_extraction", "parse_extraction"} -> <<"validation", "extraction">>

\* C3: in both modes the first failing stage ends the pipeline: once there
\* is a result nothing is in flight, a failure at a stage leaves exactly the
\* calls up to that stage issued (none for an image failure), the parser and
\* the validator are not run after a failed call, and no stage is called
\* twice.
C3_FirstFailureEndsPipeline ==
    /\ result # NoResult => Done /\ client.pc = "idle"
    /\ \A i, j \in DOMAIN api_calls : api_calls[i] = api_calls[j] => i = j
    /\ Failed =>
          /\ error_site # "none"
          /\ api_calls = CallsAt(error_site)
          /\ error_site = "image" => parser_calls = <<>> /\ validator_calls = <<>>
          /\ error_site \in {"api_one_shot", "api_validation"} =>
                 parser_calls = <<>> /\ validator_calls = <<>>
          /\ error_site = "parse_validation" =>
                 parser_calls = <<"validation">> /\ validator_calls = <<>>
          /\ error_site = "api_extraction" =>
                 parser_calls = <<"validation">> /\ validator_calls = <<>>

C3_Witness ==
    /\ Failed
    /\ error_site = "image"
    /\ api_calls = <<>>
    /\ HasPrefix(result.error.v, <<"Erreur", "de", "traitement", "image", ":">>)

ExtractionIssued == "extraction" \in {api_calls[i] : i \in DOMAIN api_calls}

CallsInOrder ==
    IF two_step
    THEN api_calls \in {<<>>, <<"validation">>, <<"validation", "extraction">>}
    ELSE api_calls \in {<<>>, <<"one_shot">>}

\* C6 as stated: the extraction call is issued only after the validation
\* call has returned success, its response has been parsed and its
\* is_receipt is true; at most two calls, validation first, and at most one
\* in one-shot mode.
C6_ExtractionOnlyAfterTrueVerdict ==
    /\ CallsInOrder
    /\ ExtractionIssued =>
          /\ ValidationParsed
          /\ IsTrue(Get(ValidationData.is_receipt))

\* C6 (amended): the extraction call is issued only after the validation
\* call, stats lookup included, has returned success, its response has been
\* parsed and its is_receipt is not false-like (it is true, or any other
\* value that counts as true, such as 1); a run issues at most two calls,
\* validation first, and in one-shot mode at most one; no call is issued
\* while another is in flight.
C6_ExtractionOnlyAfterVerdict ==
    /\ CallsInOrder
    /\ ExtractionIssued =>
          /\ ValidationParsed
          /\ Truthy(GetOr(ValidationData.is_receipt, Bool(FALSE)))
    /\ (pc = "validation") => ~ExtractionIssued
    /\ client.pc # "idle" => pc \in Stages /\ api_calls[Len(api_calls)] = pc

C6_Witness ==
    /\ two_step
    /\ pc = "extraction"
    /\ client.pc = "lookup"
    /\ api_calls = <<"validation", "extraction">>
    /\ ValidationParsed
    /\ IsTrue(Get(ValidationData.is_receipt))
    /\ validation_response.metrics.generation_time_ms = Num(800)

OneShotCallFailed ==
    /\ ~two_step
    /\ Done
    /\ \/ error_site = "api_one_shot" /\ response = None
       \/ response # None /\ response.success = Bool(FALSE)

\* C7: in one-shot mode, when the API call raises or returns success false,
\* extract returns a failure whose message has the API-error prefix, and
\* neither extract_json_from_response nor parse_receipt_json has been called.
C7_OneShotApiFailure ==
    OneShotCallFailed
        => /\ result.success = Bool(FALSE)
           /\ HasPrefix(result.error.v, <<"Erreur", "API", ":">>)
           /\ parser_calls = <<>>
           /\ validator_calls = <<>>

C7_Witness ==
    /\ OneShotCallFailed
    /\ response # None
    /\ result.error.v = <<"Erreur", "API", ":", "HTTP", "500", ":", "server", "error">>

\* the kind of a failure: its message up to the first colon
KindOf(msg) ==
    LET k == CHOOSE k \in 1..Len(msg) :
                 msg[k] = ":" /\ \A j \in 1..(k - 1) : msg[j] # ":"
    IN  SubSeq(msg, 1, k)

\* the one site each kind stands for, among the five sites of two-step and
\* one-shot transport failures and two-step parse failures
SiteOfKind(kind) ==
    CASE kind = <<"Erreur", "API", ":">> -> "api_one_shot"
      [] kind = <<"Erreur", "API", "validation", ":">> -> "api_validation"
      [] kind = <<"Erreur", "API", "extraction", ":">> -> "api_extraction"
      [] kind = <<"Erreur", "validation", ":">> -> "parse_validation"
      [] kind = <<"Erreur", "de", "parsing", ":">> -> "parse_extraction"
      [] OTHER -> "other"

DistinguishedSites ==
    {"api_one_shot", "api_validation", "api_extraction",
     "parse_validation", "parse_extraction"}

\* C8: the kind of a failure tells which site failed: for a transport
\* failure at the one-shot, the validation or the extraction stage and for a
\* parse failure at the validation or the extraction stage, the site is a
\* function of the kind, so no two of these five sites give the same kind.
C8_KindIdentifiesSite ==
    (Failed /\ error_site \in DistinguishedSites)
        => SiteOfKind(KindOf(result.error.v)) = error_site

C8_Witness ==
    /\ Failed
    /\ error_site = "parse_extraction"
    /\ ValidationParsed
    /\ KindOf(result.error.v) = <<"Erreur", "de", "parsing", ":">>
    /\ result.raw_response # Absent

\* C9 as stated: a second run on the same image with the same model
\* responses, whose stats lookups may answer anything else, ends with the
\* same success flag, the same data and the same is_receipt.
C9_StatsNeverChangeOutcome ==
    (run = 2 /\ Done) => Outcome(result) = first_result

\* a backoff sleep starts
SleepStarts == client.pc = "lookup" /\ client'.pc = "sleep"

\* C32: the backoff sleep that follows the failed attempt of zero-based index
\* k lasts at least base_delay * 2^k and at most 1.1 * base_delay * 2^k, the
\* same after a 404 and after an exception; the first sleep uses the
\* multiplier 2^0, and a sleep is never shorter than the longest that an
\* earlier attempt of the same fetch can be followed by.  k is counted as the
\* number of requests made before the failed one.
C32_BackoffBounds ==
    [][SleepStarts
         => /\ client'.total_delay >= BaseDelayMs * Pow2(Len(lookup_log))
            /\ 10 * client'.total_delay <= 11 * BaseDelayMs * Pow2(Len(lookup_log))
            /\ \A j \in 0..(Len(lookup_log) - 1) :
                   10 * client'.total_delay >= 11 * BaseDelayMs * Pow2(j)]_vars

\* the second attempt raised and the sleep after it is the longest allowed:
\* twice the base delay and a tenth more
C32_Witness ==
    /\ client.pc = "sleep"
    /\ Len(lookup_log) = 2
    /\ Is404(lookup_log[1])
    /\ lookup_log[2].kind = "exception"
    /\ 10 * client.total_delay = 11 * BaseDelayMs * 2

\* the last lookup made
LastLookup == lookup_log[Len(lookup_log)]

\* C33: for every sequence of lookup outcomes (200, 404, another status, an
\* exception of the request, a 200 whose body cannot be decoded) and every
\* max_retries >= 0, get_generation_stats ends after at most max_retries
\* lookups and returns either the data of a 200 answer or None; no failure of
\* a lookup reaches its caller, which always gets to return.
C33_StatsFetchEnds ==
    /\ [](Len(lookup_log) <= max_retries)
    /\ [](LookupReturned
            => \/ client.stats = None
               \/ /\ Is200(LastLookup)
                  /\ ~RaisedIn(LastLookup)
                  /\ client.stats = GetOr(LastLookup.body.data, EmptyStats))
    /\ []((client.pc = "returned" /\ Truthy(client.generation_id) /\ max_retries = 0)
            => client.stats = None)
    /\ <>(client.pc = "returned")

\* every one of four attempts raised: the fetch has returned None and
\* analyze_receipt a success
C33_Witness ==
    /\ max_retries = 4
    /\ LookupReturned
    /\ Len(lookup_log) = 4
    /\ \A k \in 1..4 : RaisedIn(lookup_log[k])
    /\ client.stats = None
    /\ IsTrue(client.result.success)

-----------------------------------------------------------------------------
(* Properties of the fenced block and of the bracket scan (SpecParser).     *)

\* the first fenced block of the text holds JSON
FenceParses ==
    /\ re_search(response_text).found
    /\ json_loads_ok(re_search(response_text).group)

RECURSIVE ScanFrom(_, _)
\* the locals of the loop when it ends, started on text s with locals st
ScanFrom(st, s) ==
    IF st.i >= Len(s) THEN st
    ELSE IF ScanChar(st, s[st.i + 1]).stopped THEN ScanChar(st, s[st.i + 1])
    ELSE ScanFrom([ScanChar(st, s[st.i + 1]) EXCEPT !.i = st.i + 1], s)

\* the loop has just ended
ScanOver == ppc = "after"

\* C27: the fenced block has priority.  When the text holds a json fenced
\* block whose inner content parses as JSON, extract_json_from_response
\* returns that inner content and the bracket scan does not run, even if a
\* bracketed JSON value stands earlier in the text; when the first fenced
\* block does not parse (or there is none), the bracket scan runs over the
\* whole text, from its first character.
C27_FencedBlockFirst ==
    /\ (ParserDone /\ FenceParses)
          => /\ parsed = Returned(re_search(response_text).group)
             /\ scan = ScanInit
    /\ (ScanOver /\ ~FenceParses)
          => scan = ScanFrom(ScanInit, response_text)

\* the text starts with the array [] and goes on with a fenced 1: the call
\* has returned 1 and no character was scanned
C27_Witness ==
    /\ ParserDone
    /\ IsAt(response_text, <<"[", "]">>, 0)
    /\ Find(response_text, FenceOpen) = 2
    /\ parsed = Returned(<<"1">>)
    /\ scan = ScanInit

\* the character the next iteration of the loop reads
NextChar == response_text[scan.i + 1]

\* the loop is about to read a character
Scanning == ppc = "scan" /\ scan.i < Len(response_text)

\* the span the scanner is building
SpanOf(st) ==
    <<st.start_pos, st.end_pos, st.depth, st.open_char, st.close_char, st.stopped>>

\* C28: during the bracket scan, while the position is inside a quoted string,
\* no character other than a double quote changes the span the scanner is
\* building or takes it out of the string: braces and brackets inside a
\* string neither open a span nor change depth nor close the span.  The only
\* other local that changes there is the escape flag, which a backslash sets
\* and the character after it clears.
C28_InsideStringInert ==
    [][(Scanning /\ scan.in_string /\ NextChar # "\"")
          => /\ SpanOf(scan') = SpanOf(scan)
             /\ scan'.in_string
             /\ scan'.escape_next # scan.escape_next
                   => (scan.escape_next \/ NextChar = "\\")]_vars

\* the scanner is inside a string of an open span of depth 1 and has just
\* read, unescaped, the character that closes spans of that kind
C28_Witness ==
    /\ ppc = "scan"
    /\ scan.in_string
    /\ ~scan.escape_next
    /\ scan.i >= 2
    /\ scan.depth = 1
    /\ response_text[scan.i] = scan.close_char
    /\ response_text[scan.i - 1] # "\\"
    /\ scan.end_pos = -1

RECURSIVE BackslashesBefore(_, _)
\* the length of the run of backslashes that ends just before the character
\* at 0-based position p of s
BackslashesBefore(s, p) ==
    IF p = 0 \/ s[p] # "\\" THEN 0 ELSE 1 + BackslashesBefore(s, p - 1)

\* the character at 0-based position p is escaped: each backslash escapes
\* the one character after it, so the run before p has odd length
EscapedAt(s, p) == BackslashesBefore(s, p) % 2 = 1

\* C29: the scanner's in_string toggles on a double quote exactly when that
\* quote is not escaped, and on no other character: a quote right after an
\* unescaped backslash does not toggle it; the escape covers exactly one
\* following character, so a quote after an escaped backslash (two
\* backslashes) does toggle it.
C29_QuoteTogglesUnlessEscaped ==
    [][Scanning
          => ((scan'.in_string # scan.in_string)
                <=> (NextChar = "\"" /\ ~EscapedAt(response_text, scan.i)))]_vars

\* the scanner has just read a quote that follows exactly two backslashes,
\* inside a string, and is out of the string
C29_Witness ==
    /\ ppc \in {"scan", "after"}
    /\ scan.i >= 4
    /\ response_text[scan.i] = "\""
    /\ BackslashesBefore(response_text, scan.i - 1) = 2
    /\ response_text[scan.i - 3] # "\""
    /\ \E k \in 1..(scan.i - 3) : response_text[k] = "\""
    /\ ~scan.in_string
    /\ ~scan.stopped

\* the character at 0-based position p of s
CharAt(s, p) == s[p + 1]

\* the quotes in front of position p that toggle in_string
QuotesBefore(s, p) ==
    Cardinality({q \in 0..(p - 1) : CharAt(s, q) = "\"" /\ ~EscapedAt(s, q)})

\* position p is outside a quoted string
OutsideString(s, p) == QuotesBefore(s, p) % 2 = 0

\* the first opening brace or bracket outside a string, -1 when none
FirstOpen(s) ==
    IF \E p \in 0..(Len(s) - 1) : CharAt(s, p) \in {"{", "["} /\ OutsideString(s, p)
    THEN CHOOSE p \in 0..(Len(s) - 1) :
            /\ CharAt(s, p) \in {"{", "["} /\ OutsideString(s, p)
            /\ \A q \in 0..(p - 1) : ~(CharAt(s, q) \in {"{", "["} /\ OutsideString(s, q))
    ELSE -1

\* the occurrences of char outside strings from position a to position p
CountOf(s, char, a, p) ==
    Cardinality({q \in a..p : CharAt(s, q) = char /\ OutsideString(s, q)})

\* opening characters of the kind of the one at a, minus their closing
\* characters, from a to p
Balance(s, a, p) ==
    CountOf(s, CharAt(s, a), a, p)
        - CountOf(s, IF CharAt(s, a) = "{" THEN "}" ELSE "]", a, p)

\* the position just after the first character outside a string, later than
\* a, at which the balance is 0; -1 when there is none
FirstBalanced(s, a) ==
    IF \E p \in (a + 1)..(Len(s) - 1) : OutsideString(s, p) /\ Balance(s, a, p) = 0
    THEN 1 + CHOOSE p \in (a + 1)..(Len(s) - 1) :
                /\ OutsideString(s, p) /\ Balance(s, a, p) = 0
                /\ \A q \in (a + 1)..(p - 1) :
                        ~(OutsideString(s, q) /\ Balance(s, a, q) = 0)
    ELSE -1

\* the loop has run and ended
ScanRan == ScanOver /\ ~FenceParses

\* C30: in the bracket scan the candidate span starts at the first opening
\* brace or bracket that occurs outside a quoted string, and ends just after
\* the first later character outside a string at which the count of that same
\* opening character minus the count of its closing character is back to 0;
\* brackets of the other kind are not counted, and the scan stops there.
C30_SpanFromFirstOpenToBalance ==
    ScanRan =>
        /\ scan.start_pos = FirstOpen(response_text)
        /\ scan.end_pos = IF FirstOpen(response_text) = -1 THEN -1
                          ELSE FirstBalanced(response_text, FirstOpen(response_text))
        /\ scan.end_pos # -1 => (scan.stopped /\ scan.i = scan.end_pos - 1)

\* the one candidate of the scan: it was opened, closed, and it decodes
CandidateDecodes ==
    /\ scan.start_pos # -1
    /\ scan.end_pos # -1
    /\ json_loads_ok(Slice(response_text, scan.start_pos, scan.end_pos))

\* C31: a scan produces exactly one candidate span.  Once a span is opened
\* no later bracket opens another one (its start and its pair of characters
\* stay as they are), and when that single candidate is missing, unclosed or
\* fails to decode, extract_json_from_response raises the no-JSON error
\* without trying any later bracket of the text.
C31_OneCandidatePerScan ==
    /\ []((ParserDone /\ ~FenceParses)
            => parsed = IF CandidateDecodes
                        THEN Returned(Slice(response_text, scan.start_pos, scan.end_pos))
                        ELSE NoJsonFound)
    /\ [][scan.start_pos # -1
            => /\ scan'.start_pos = scan.start_pos
               /\ scan'.open_char = scan.open_char
               /\ scan'.close_char = scan.close_char]_vars

\* the text is an unclosed brace followed by the well-formed array []: the
\* brace was the candidate, the array was never tried, the call has raised
C31_Witness ==
    /\ ParserDone
    /\ response_text = <<"{", "[", "]">>
    /\ scan.start_pos = 0
    /\ scan.open_char = "{"
    /\ scan.end_pos = -1
    /\ parsed = NoJsonFound

-----------------------------------------------------------------------------
(* Properties of parse_receipt_json (SpecValidator).                        *)

\* the call returned a ReceiptData
ReturnedReceipt ==
    vpc = "returned" /\ validated.ok /\ IsReceiptData(validated.value)

\* the call returned an InvalidReceipt
ReturnedInvalid ==
    vpc = "returned" /\ validated.ok /\ ~IsReceiptData(validated.value)

\* the call raised
Rejected == vpc = "returned" /\ ~validated.ok

\* C12: in every ReceiptData returned that has a totals block,
\* total_calculated equals the sum of total_price over the items whose
\* total_price is not null, so it is never the value of the model response.
C12_TotalCalculatedIsDerived ==
    ReturnedReceipt /\ validated.value.totals # None
        => validated.value.totals.total_calculated
               = SumPrices(validated.value.items)

\* the total stated by the input, None when it states none
StatedTotal ==
    IF json_data.totals.t = "dict" THEN Get(json_data.totals.total) ELSE None

\* |a - b| <= 0.01 for the floats a and b
WithinTolerance(a, b) ==
    fl_le(fl_abs(fl_sub(float(a), float(b))), float(Num(Tolerance)))

\* C13: when the input states a total, the receipt returned keeps that total
\* and its total_matches is true exactly when the total and total_calculated
\* differ by at most 0.01, and false otherwise.
C13_TotalMatchesWithinTolerance ==
    ReturnedReceipt /\ StatedTotal # None
        => /\ validated.value.totals.total = StatedTotal
           /\ validated.value.totals.total_calculated # None
                => validated.value.totals.total_matches
                       = Bool(WithinTolerance(validated.value.totals.total,
                                              validated.value.totals.total_calculated))

\* the input has at least one item
HasItems == json_data.items.t = "list" /\ json_data.items.v # <<>>

\* C14 as stated: when a receipt input has items and states no total, the
\* receipt returned has total equal to the sum of the items' total_price
\* values and total_matches true.
C14_TotalSetFromItems ==
    ReturnedReceipt /\ HasItems /\ StatedTotal = None
        => /\ validated.value.totals # None
           /\ validated.value.totals.total = SumPrices(validated.value.items)
           /\ validated.value.totals.total_matches = Bool(TRUE)

\* C14, amended: when a receipt input has items and a totals block that
\* states no total, the receipt returned has total equal to the sum of the
\* items' total_price values and total_matches true.
C14_TotalSetFromItemsInTotalsBlock ==
    ReturnedReceipt /\ HasItems /\ json_data.totals.t = "dict" /\ StatedTotal = None
        => /\ validated.value.totals.total = SumPrices(validated.value.items)
           /\ validated.value.totals.total_matches = Bool(TRUE)

\* items 5.0 and 3.0 and a totals block without total: total is 8.0
C14_Witness ==
    /\ ReturnedReceipt
    /\ json_data.totals.t = "dict" /\ StatedTotal = None
    /\ Len(validated.value.items) = 2
    /\ validated.value.items[1].total_price = Num(500)
    /\ validated.value.items[2].total_price = Num(300)
    /\ validated.value.totals.total = Double(800, 0)
    /\ validated.value.totals.total_matches = Bool(TRUE)

\* what the validated field must be for the input field given
AmountKept(given, out, default) ==
    IF given = Absent THEN out = default
    ELSE IF given = None THEN out = None
    ELSE IF given.v < 0 THEN out = Num(0 - given.v)
    ELSE out = given

NotNegative(out) == out = None \/ out.v >= 0

\* C15: for every line item of a receipt input, the quantity, unit_price and
\* total_price returned are the absolute value of the input value when it is
\* negative and the input value otherwise, so none of them is negative; a
\* null unit_price or total_price stays null.
C15_AmountsMadePositive ==
    ReturnedReceipt /\ json_data.items.t = "list"
        => /\ Len(validated.value.items) = Len(json_data.items.v)
           /\ \A k \in DOMAIN json_data.items.v :
                /\ AmountKept(json_data.items.v[k].quantity,
                              validated.value.items[k].quantity, Num(100))
                /\ AmountKept(json_data.items.v[k].unit_price,
                              validated.value.items[k].unit_price, None)
                /\ AmountKept(json_data.items.v[k].total_price,
                              validated.value.items[k].total_price, None)
                /\ NotNegative(validated.value.items[k].quantity)
                /\ NotNegative(validated.value.items[k].unit_price)
                /\ NotNegative(validated.value.items[k].total_price)

\* a refund line with quantity -2.00, unit_price -0.75 and total_price -1.50
\* comes back as 2.00, 0.75 and 1.50
C15_Witness ==
    /\ ReturnedReceipt
    /\ HasItems
    /\ json_data.items.v[1].quantity = Num(-200)
    /\ json_data.items.v[1].unit_price = Num(-75)
    /\ json_data.items.v[1].total_price = Num(-150)
    /\ validated.value.items[1].quantity = Num(200)
    /\ validated.value.items[1].unit_price = Num(75)
    /\ validated.value.items[1].total_price = Num(150)

\* the input is handled as a receipt: its is_receipt is True
ReceiptInput == IsTrue(Get(json_data.is_receipt))

\* the category given by the input, None when it gives none
GivenCategory == Get(json_data.category)

\* the category is one of the six expense categories
IsValidCategory(c) == c.t = "str" /\ InList(c.v, valid_categories)

\* the message lists the six valid categories
ListsCategories(msg) ==
    \A k \in DOMAIN valid_categories : InList(valid_categories[k], msg)

\* the message names the rejected value (the type error of a value that is
\* not a string always shows its input)
NamesValue(msg, c) == IF c.t = "str" THEN InList(c.v, msg) ELSE TRUE

\* C16 as stated: a receipt input whose category is present and is not one
\* of the six expense categories fails validation with an error that names
\* the invalid value and lists the six valid categories; a null or absent
\* category and each of the six values are accepted and returned unchanged.
C16_CategoryClosedSet ==
    vpc = "returned" /\ ReceiptInput
        => IF GivenCategory = None \/ IsValidCategory(GivenCategory)
           THEN ReturnedReceipt /\ validated.value.category = GivenCategory
           ELSE /\ Rejected
                /\ NamesValue(validated.value.msg, GivenCategory)
                /\ ListsCategories(validated.value.msg)

\* C16, amended: a category that is a string other than the six expense
\* categories fails validation with an error that names it and lists the six
\* valid categories; a category that is not a string fails validation; a
\* null or absent category and each of the six values are accepted and
\* returned unchanged.
C16_StringCategoryClosedSet ==
    vpc = "returned" /\ ReceiptInput
        => IF GivenCategory = None \/ IsValidCategory(GivenCategory)
           THEN ReturnedReceipt /\ validated.value.category = GivenCategory
           ELSE /\ Rejected
                /\ GivenCategory.t = "str"
                     => /\ NamesValue(validated.value.msg, GivenCategory)
                        /\ ListsCategories(validated.value.msg)

\* the category "Misc" is rejected with a message that names it and lists
\* the six categories
C16_Witness ==
    /\ ReceiptInput
    /\ GivenCategory = Str("Misc")
    /\ Rejected
    /\ InList("Misc", validated.value.msg)
    /\ ListsCategories(validated.value.msg)

\* C17: the two record variants are a tagged union keyed by is_receipt:
\* every ReceiptData returned has is_receipt true, and every InvalidReceipt
\* returned has is_receipt false and a reason string.
C17_TaggedUnion ==
    /\ ReturnedReceipt => validated.value.is_receipt = Bool(TRUE)
    /\ ReturnedInvalid
         => /\ validated.value.is_receipt = Bool(FALSE)
            /\ validated.value.reason.t = "str"

\* parse_receipt_json has ended on an input whose is_receipt is not true
NotTrueInput == vpc = "returned" /\ ~IsTrue(Get(json_data.is_receipt))

\* C26: parse_receipt_json never returns a ReceiptData for an input whose
\* is_receipt is anything other than exactly true (false, null, absent, a
\* number, a string): such an input is decoded as an InvalidReceipt, which
\* is returned when the input has a reason text, and the call fails with a
\* validation error when the input has no reason.
C26_NotTrueDecodedAsInvalid ==
    NotTrueInput =>
        /\ ~ReturnedReceipt
        /\ json_data.reason = Absent => Rejected
        /\ json_data.reason.t = "str" => ReturnedInvalid

\* a receipt was returned whose totals block has a total_calculated
HasTotalCalculated ==
    /\ ReturnedReceipt
    /\ validated.value.totals # None
    /\ validated.value.totals.total_calculated # None

\* C34: the items are normalised before the totals are reconciled, so an
\* item whose input total_price is negative counts with its absolute value:
\* in every receipt returned, total_calculated is never negative and never
\* smaller than the total_price of any single item of the output.
C34_TotalCalculatedFromNormalisedItems ==
    HasTotalCalculated =>
        /\ fl_le(float(Num(0)), float(validated.value.totals.total_calculated))
        /\ \A k \in DOMAIN validated.value.items :
               validated.value.items[k].total_price # None
                   => fl_le(float(validated.value.items[k].total_price),
                            float(validated.value.totals.total_calculated))

\* the input has a totals block
HasTotalsBlock == json_data.totals.t = "dict"

\* C35: validate_totals changes nothing when the receipt has no totals block
\* or has an empty item list: the receipt returned is the one built from the
\* input, no totals block is created, and an existing block keeps the total,
\* total_calculated and total_matches of the model response.
C35_ValidateTotalsFrame ==
    (ReturnedReceipt /\ (~HasTotalsBlock \/ ~HasItems))
        => /\ validated.value = ReceiptData(json_data).value
           /\ ~HasTotalsBlock => validated.value.totals = None
           /\ HasTotalsBlock
                => validated.value.totals
                       = TotalsOf(Get(json_data.totals.total),
                                  Get(json_data.totals.total_calculated),
                                  Get(json_data.totals.total_matches))

\* an empty item list and a block stating 9.00, 9.90 and a match: the block
\* of the receipt returned says the same
C35_Witness ==
    /\ ReturnedReceipt
    /\ json_data.items = List(<<>>)
    /\ HasTotalsBlock
    /\ validated.value.totals = TotalsOf(Num(900), Num(990), Bool(TRUE))

\* C36: parse_receipt_json is idempotent over its own output: serialising a
\* record it returned and parsing it again returns an equal record
\* (normalised amounts, total, total_calculated and total_matches are all
\* unchanged by the second pass).
C36_ParseIdempotent ==
    [][vpc' = "reparsed" => validated' = validated]_vars

-----------------------------------------------------------------------------
(* Properties of the two-step results (Spec).                               *)

\* a success returned after the validation stage alone
ValidationOnlySuccess ==
    two_step /\ Done /\ result.success = Bool(TRUE) /\ api_calls = <<"validation">>

\* C18: in two-step mode, every success result returned after the validation
\* stage alone carries as data a not-a-receipt record: is_receipt false
\* together with a reason string.
C18_ValidationOnlyPayload ==
    ValidationOnlySuccess
        => /\ IsFalse(result.data.is_receipt)
           /\ result.data.reason.t = "str"

\* a success of a run that made both calls
BothStagesSuccess ==
    /\ two_step /\ Done /\ result.success = Bool(TRUE)
    /\ api_calls = <<"validation", "extraction">>

\* the total_tokens of a usage record, 0 when it has none
TokensOf(usage) ==
    IF usage.total_tokens = Absent THEN 0 ELSE usage.total_tokens.v

\* C19: in a two-step success that went through both stages, usage holds the
\* usage of the validation call and that of the extraction call as two
\* sub-records and total_tokens equal to the sum of their total_tokens (a
\* missing one counting as 0), and metrics holds the metrics of the two calls
\* unchanged under the keys validation and extraction.
C19_UsageAndMetricsCombined ==
    BothStagesSuccess
        => /\ result.usage.validation = validation_response.usage
           /\ result.usage.extraction = extraction_response.usage
           /\ result.usage.total_tokens
                = Num(TokensOf(validation_response.usage)
                      + TokensOf(extraction_response.usage))
           /\ result.metrics.validation = validation_response.metrics
           /\ result.metrics.extraction = extraction_response.metrics

\* both calls used 10 tokens and the result counts 20
C19_Witness ==
    /\ BothStagesSuccess
    /\ validation_response.usage.total_tokens = Num(10)
    /\ extraction_response.usage.total_tokens = Num(10)
    /\ result.usage.total_tokens = Num(20)
    /\ result.metrics.validation = validation_response.metrics

\* the response whose content was handed to the parser at a site
ParsedAt(site) ==
    CASE site = "parse_one_shot" -> response
      [] site = "parse_validation" -> validation_response
      [] site = "parse_extraction" -> extraction_response

\* both calls were answered, and the extraction answer decodes and validates
BothStagesValid ==
    /\ two_step /\ Done
    /\ api_calls = <<"validation", "extraction">>
    /\ validation_response # None /\ extraction_response # None
    /\ Truthy(validation_response.success)
    /\ Truthy(extraction_response.success)
    /\ extract_json_from_response(extraction_response.content).ok
    /\ parse_receipt_json(
           extract_json_from_response(extraction_response.content).value).ok

\* the total_tokens of the usage an answer carries, 0 when it carries none
TokensOrZero(usage) == IF usage = None THEN 0 ELSE TokensOf(usage)

\* C37: in two-step mode, when both calls succeed and both answers decode and
\* validate, extract returns a success whether or not an answer carries usage
\* data: an answer whose usage is null counts 0 tokens for its stage and the
\* result is the same success, not a failure.
C37_SuccessWithoutUsage ==
    BothStagesValid
        => /\ result.success = Bool(TRUE)
           /\ result.usage.total_tokens
                = Num(TokensOrZero(validation_response.usage)
                      + TokensOrZero(extraction_response.usage))


\* C20: every failure result caused by the parser finding no JSON or by the
\* validator rejecting the content carries the raw response text that caused
\* it (an empty text has nothing to carry), at whichever stage and in
\* whichever mode the failure occurs.
C20_ParseFailureCarriesRawText ==
    (Failed /\ error_site \in {"parse_one_shot", "parse_validation", "parse_extraction"})
        => \/ result.raw_response = ParsedAt(error_site).content
           \/ ~Truthy(ParsedAt(error_site).content)

\* a model response was received and failed to parse
ParseFailure ==
    Failed /\ error_site \in {"parse_one_shot", "parse_validation", "parse_extraction"}

\* C21: a result returned by extract holds raw_response only when a model
\* response was received and failed to parse; the results of every other
\* outcome (success, image failure, transport failure) hold none.
C21_RawResponseOnlyOnParseFailure ==
    Done /\ result.raw_response # Absent => ParseFailure

\* a success result built from what parse_receipt_json returned
ValidatedSuccess == Done /\ IsTrue(result.success) /\ validator_calls # <<>>

\* the record parse_receipt_json returned for that result
ReturnedRecord ==
    parse_receipt_json(
        (IF two_step THEN extraction_response ELSE response).content.span).value

\* C25: in every success result of extract built from the schema validator's
\* output, in one-shot and in two-step mode alike, the top-level is_receipt is
\* true exactly when the validator returned the ReceiptData variant, and it
\* equals the is_receipt value inside data.
C25_IsReceiptFromVariant ==
    ValidatedSuccess =>
        /\ IsTrue(result.is_receipt) <=> IsReceiptData(ReturnedRecord)
        /\ result.is_receipt = result.data.is_receipt

-----------------------------------------------------------------------------
(* Properties of cancellation (SpecCancel, SpecClientCancel).               *)

\* the caller's cancellation has been delivered to the run
Cancelled == client.cancelled

C23_CancellationStopsStatsLoop ==
    /\ [](Cancelled => client.pc = "cancelled")
    /\ [][Cancelled => lookup_log' = lookup_log /\ client'.pc = "cancelled"]_vars

\* the signal arrives during the backoff sleep after the second of four
\* attempts
C23_Witness ==
    /\ Cancelled
    /\ client.pc = "cancelled"
    /\ max_retries = 4
    /\ Len(lookup_log) = 2
    /\ client.sleeps = 2
    /\ client.total_delay > 0

-----------------------------------------------------------------------------
(* Properties of concurrent extract calls (SpecConcurrent).                 *)

\* the locals of call i: of the running call, or of the suspended one
Task(i) == IF cur = i THEN Locals ELSE other

\* what analyze_receipt keeps of the answer r of chat.completions.create
Kept(r) ==
    [content_to_return |-> IF r.choices # <<>> /\ Truthy(r.choices[1].content)
                           THEN r.choices[1].content ELSE None,
     usage_data |-> IF r.usage # None
                    THEN [t |-> "usage",
                          prompt_tokens |-> Num(r.usage.prompt_tokens),
                          completion_tokens |-> Num(r.usage.completion_tokens),
                          total_tokens |-> Num(r.usage.total_tokens)]
                    ELSE None,
     metrics |-> [InitialMetrics EXCEPT !.finish_reason =
                     IF r.choices # <<>> THEN Str(r.choices[1].finish_reason) ELSE None],
     model |-> r.model]

\* the stats a sequence of lookup answers ends with
StatsOf(r, log) ==
    IF ~Truthy(r.id) \/ log = <<>> THEN None
    ELSE IF log[Len(log)].status = 200 /\ log[Len(log)].body # Undecodable
    THEN GetOr(log[Len(log)].body.data, EmptyStats)
    ELSE None

\* resp is what analyze_receipt returns alone on the answer o of the model
\* API and, for the last call made, on the lookup answers in log
AnswerOf(o, resp, log, last) ==
    CASE o.kind = "error" -> resp = FailureResponse(o.error)
      [] o.kind = "response" ->
            IF last
            THEN resp = SuccessResponse(Kept(o.response), StatsOf(o.response, log))
            ELSE /\ IsTrue(resp.success)
                 /\ resp.content = Kept(o.response).content_to_return
                 /\ resp.usage = Kept(o.response).usage_data
                 /\ resp.model = Str(o.response.model)
      [] OTHER -> FALSE

RaisedResult(stage, e) ==
    CASE stage = "one_shot" -> handle_api_error(Exception(e.type, e.msg))
      [] stage = "validation" -> handle_api_validation_error(Exception(e.type, e.msg))
      [] stage = "extraction" -> handle_api_extraction_error(Exception(e.type, e.msg))

\* the result of _extract_one_shot run alone on the answers call t received
AloneOneShot(t) ==
    IF t.model_out["one_shot"].kind = "raise"
    THEN t.result = RaisedResult("one_shot", t.model_out["one_shot"].error)
    ELSE /\ AnswerOf(t.model_out["one_shot"], t.response, t.lookup_log, TRUE)
         /\ t.result = one_shot_after(t.response).result

\* the result of _extract_two_step run alone on the answers call t received
AloneTwoStep(t) ==
    IF t.model_out["validation"].kind = "raise"
    THEN /\ t.result = RaisedResult("validation", t.model_out["validation"].error)
         /\ t.model_out["extraction"] = NoOutcome
    ELSE /\ AnswerOf(t.model_out["validation"], t.validation_response, t.lookup_log,
                     t.model_out["extraction"].kind # "response")
         /\ IF validation_after(t.validation_response).result # NoResult
            THEN /\ t.result = validation_after(t.validation_response).result
                 /\ t.model_out["extraction"] = NoOutcome
            ELSE IF t.model_out["extraction"].kind = "raise"
            THEN t.result = RaisedResult("extraction", t.model_out["extraction"].error)
            ELSE /\ AnswerOf(t.model_out["extraction"], t.extraction_response,
                             t.lookup_log, TRUE)
                 /\ t.result = extraction_after(t.validation_response,
                                                t.extraction_response).result

\* the result of extract run alone on the image and the answers of call t
ResultAlone(t) ==
    IF t.image_out.kind = "error"
    THEN /\ t.result = handle_image_processing_error(t.image_out.error)
         /\ t.api_calls = <<>>
    ELSE IF t.two_step THEN AloneTwoStep(t) ELSE AloneOneShot(t)

\* C24: when two extract calls run concurrently on one orchestrator and one API
\* client, interleaved at their awaits in any order, the result of each call
\* that has returned is the result extract gives alone on that call's image
\* outcome and on the answers that call received; a step of the running call
\* leaves every local of the suspended call as it was, and a change of call
\* changes no local of either call.
C24_ConcurrentCallsIsolated ==
    /\ [](\A i \in {1, 2} : Task(i).pc = "done" => ResultAlone(Task(i)))
    /\ [][\A i \in {1, 2} : (i # cur \/ cur' # cur) => Task(i)' = Task(i)]_vars

\* one call has returned a receipt while the other, started before the first
\* returned, is still waiting in its backoff sleep after its validation step
C24_Witness ==
    /\ pc = "done"
    /\ IsTrue(result.success)
    /\ IsTrue(result.is_receipt)
    /\ lookup_log # <<>>
    /\ other.pc = "extraction"
    /\ other.client.pc = "sleep"
    /\ other.validation_response # None

-----------------------------------------------------------------------------
(* Properties of analyze_bill (SpecServer).                                 *)

\* the request is over: a response was returned
Replied == handler.pc = "done"

\* the path an imageUri request refers to
ReferencedPath == replace(request.image_uri, "file://")

\* C38: analyze_bill removes only the temporary files it created for the
\* request: once the request is over, whatever its outcome, no temporary file
\* it created exists any more, and no step removes a file it did not create,
\* so that a file the caller referenced through imageUri still exists.
C38_OnlyOwnTempFilesRemoved ==
    /\ [](Replied => handler.created \cap files = {})
    /\ [][\A f \in files : f \notin files' => f \in handler.created]_vars

=============================================================================
